---- MODULE Spec2Model ----
(***************************************************************************)
(* pb-scan: the scan / detect / aggregate engine of project-bridge.        *)
(*                                                                         *)
(* The file system is the input.  A directory tree is a set of leaf        *)
(* entries; every proper prefix of a leaf's path is a directory.  The      *)
(* walker (ignore::WalkBuilder with hidden(true) and the git ignore        *)
(* rules switched on) yields the entries below a root that are neither     *)
(* hidden nor covered by an ignore rule.                                   *)
(*                                                                         *)
(* HashMap iteration order is not specified by Rust: every use of          *)
(* HashMap::iter is a choice among all orders of the keys.                 *)
(*                                                                         *)
(* A percentage is kept in tenths (16.7 is 167).  The code computes        *)
(* ((bytes as f64 / total as f64) * 1000.0).round() / 10.0; for every      *)
(* total below 400 the f64 value equals the exact quotient rounded half    *)
(* away from zero, which is what Percentage computes.                      *)
(***************************************************************************)
EXTENDS Integers, Sequences, FiniteSets, TLC

\* ---------------------------------------------------------------- bounds
\* Largest file size, in bytes.
MaxSize == 2
\* Largest number of leaf entries in the whole file system.
MaxFiles == 2
\* Longest list of roots handed to scan_directories.
MaxRoots == 2
\* Number of languages in a byte-count map given to build_language_list.
NumLangs == 4
\* Largest byte count of one language in such a map.
MaxBytes == 5

\* ---------------------------------------------------------------- tables
\* FRAMEWORK_INDICATORS with webpack.config.js entered as infrastructure, which is
\* not the category detect_npm's table gives Webpack.
FRAMEWORK_INDICATORS_WEBPACK_AS_INFRASTRUCTURE ==
    << <<"Dockerfile", "Docker", "infrastructure">>,
       <<"docker-compose.yml", "Docker Compose", "infrastructure">>,
       <<"docker-compose.yaml", "Docker Compose", "infrastructure">>,
       <<".github/workflows", "GitHub Actions", "infrastructure">>,
       <<".gitlab-ci.yml", "GitLab CI", "infrastructure">>,
       <<".circleci", "CircleCI", "infrastructure">>,
       <<"Jenkinsfile", "Jenkins", "infrastructure">>,
       <<"terraform", "Terraform", "infrastructure">>,
       <<"kubernetes", "Kubernetes", "infrastructure">>,
       <<"k8s", "Kubernetes", "infrastructure">>,
       <<"helm", "Helm", "infrastructure">>,
       <<".travis.yml", "Travis CI", "infrastructure">>,
       <<"netlify.toml", "Netlify", "infrastructure">>,
       <<"vercel.json", "Vercel", "infrastructure">>,
       <<"fly.toml", "Fly.io", "infrastructure">>,
       <<"render.yaml", "Render", "infrastructure">>,
       <<"nginx.conf", "Nginx", "infrastructure">>,
       <<"Vagrantfile", "Vagrant", "infrastructure">>,
       <<"ansible", "Ansible", "infrastructure">>,
       <<".eslintrc.js", "ESLint", "tool">>,
       <<".eslintrc.json", "ESLint", "tool">>,
       <<"tailwind.config.js", "Tailwind CSS", "framework">>,
       <<"tailwind.config.ts", "Tailwind CSS", "framework">>,
       <<"tsconfig.json", "TypeScript", "language">>,
       <<"webpack.config.js", "Webpack", "infrastructure">>,
       <<"vite.config.ts", "Vite", "tool">>,
       <<"vite.config.js", "Vite", "tool">>,
       <<".prettierrc", "Prettier", "tool">>,
       <<"jest.config.js", "Jest", "tool">>,
       <<"jest.config.ts", "Jest", "tool">>,
       <<"pytest.ini", "pytest", "tool">>,
       <<"pyproject.toml", "Python Package", "tool">>,
       <<"Cargo.toml", "Rust", "language">>,
       <<"go.mod", "Go", "language">>,
       <<"Gemfile", "Ruby", "language">>,
       <<"composer.json", "PHP", "language">>,
       <<"build.gradle", "Gradle", "tool">>,
       <<"pom.xml", "Maven", "tool">> >>

FRAMEWORK_INDICATORS ==
    << <<"Dockerfile", "Docker", "infrastructure">>,
       <<"docker-compose.yml", "Docker Compose", "infrastructure">>,
       <<"docker-compose.yaml", "Docker Compose", "infrastructure">>,
       <<".github/workflows", "GitHub Actions", "infrastructure">>,
       <<".gitlab-ci.yml", "GitLab CI", "infrastructure">>,
       <<".circleci", "CircleCI", "infrastructure">>,
       <<"Jenkinsfile", "Jenkins", "infrastructure">>,
       <<"terraform", "Terraform", "infrastructure">>,
       <<"kubernetes", "Kubernetes", "infrastructure">>,
       <<"k8s", "Kubernetes", "infrastructure">>,
       <<"helm", "Helm", "infrastructure">>,
       <<".travis.yml", "Travis CI", "infrastructure">>,
       <<"netlify.toml", "Netlify", "infrastructure">>,
       <<"vercel.json", "Vercel", "infrastructure">>,
       <<"fly.toml", "Fly.io", "infrastructure">>,
       <<"render.yaml", "Render", "infrastructure">>,
       <<"nginx.conf", "Nginx", "infrastructure">>,
       <<"Vagrantfile", "Vagrant", "infrastructure">>,
       <<"ansible", "Ansible", "infrastructure">>,
       <<".eslintrc.js", "ESLint", "tool">>,
       <<".eslintrc.json", "ESLint", "tool">>,
       <<"tailwind.config.js", "Tailwind CSS", "framework">>,
       <<"tailwind.config.ts", "Tailwind CSS", "framework">>,
       <<"tsconfig.json", "TypeScript", "language">>,
       <<"webpack.config.js", "Webpack", "tool">>,
       <<"vite.config.ts", "Vite", "tool">>,
       <<"vite.config.js", "Vite", "tool">>,
       <<".prettierrc", "Prettier", "tool">>,
       <<"jest.config.js", "Jest", "tool">>,
       <<"jest.config.ts", "Jest", "tool">>,
       <<"pytest.ini", "pytest", "tool">>,
       <<"pyproject.toml", "Python Package", "tool">>,
       <<"Cargo.toml", "Rust", "language">>,
       <<"go.mod", "Go", "language">>,
       <<"Gemfile", "Ruby", "language">>,
       <<"composer.json", "PHP", "language">>,
       <<"build.gradle", "Gradle", "tool">>,
       <<"pom.xml", "Maven", "tool">> >>

NPM_MAP ==
    << <<"react", "React", "framework">>,
       <<"react-native", "React Native", "framework">>,
       <<"next", "Next.js", "framework">>,
       <<"vue", "Vue", "framework">>,
       <<"nuxt", "Nuxt", "framework">>,
       <<"svelte", "Svelte", "framework">>,
       <<"@angular/core", "Angular", "framework">>,
       <<"express", "Express", "framework">>,
       <<"fastify", "Fastify", "framework">>,
       <<"gatsby", "Gatsby", "framework">>,
       <<"remix", "Remix", "framework">>,
       <<"@nestjs/core", "NestJS", "framework">>,
       <<"koa", "Koa", "framework">>,
       <<"tailwindcss", "Tailwind CSS", "framework">>,
       <<"prisma", "Prisma", "tool">>,
       <<"mongoose", "Mongoose", "tool">>,
       <<"sequelize", "Sequelize", "tool">>,
       <<"jest", "Jest", "tool">>,
       <<"mocha", "Mocha", "tool">>,
       <<"webpack", "Webpack", "tool">>,
       <<"vite", "Vite", "tool">>,
       <<"typescript", "TypeScript", "language">>,
       <<"three", "Three.js", "framework">>,
       <<"electron", "Electron", "framework">>,
       <<"socket.io", "Socket.IO", "framework">>,
       <<"graphql", "GraphQL", "tool">>,
       <<"@apollo/client", "Apollo", "framework">>,
       <<"redis", "Redis", "tool">>,
       <<"pg", "PostgreSQL", "tool">>,
       <<"mongodb", "MongoDB", "tool">>,
       <<"supabase", "Supabase", "tool">>,
       <<"firebase", "Firebase", "tool">> >>

PYTHON_MAP ==
    << <<"django", "Django", "framework">>,
       <<"flask", "Flask", "framework">>,
       <<"fastapi", "FastAPI", "framework">>,
       <<"tornado", "Tornado", "framework">>,
       <<"celery", "Celery", "tool">>,
       <<"sqlalchemy", "SQLAlchemy", "tool">>,
       <<"pandas", "pandas", "framework">>,
       <<"numpy", "NumPy", "framework">>,
       <<"scipy", "SciPy", "framework">>,
       <<"scikit-learn", "scikit-learn", "framework">>,
       <<"tensorflow", "TensorFlow", "framework">>,
       <<"torch", "PyTorch", "framework">>,
       <<"pytest", "pytest", "tool">>,
       <<"pydantic", "Pydantic", "tool">>,
       <<"requests", "Requests", "tool">>,
       <<"boto3", "AWS SDK", "tool">>,
       <<"redis", "Redis", "tool">>,
       <<"psycopg2", "PostgreSQL", "tool">> >>

RUST_MAP ==
    << <<"actix-web", "Actix Web", "framework">>,
       <<"axum", "Axum", "framework">>,
       <<"rocket", "Rocket", "framework">>,
       <<"tokio", "Tokio", "tool">>,
       <<"serde", "Serde", "tool">>,
       <<"diesel", "Diesel", "tool">>,
       <<"sqlx", "SQLx", "tool">>,
       <<"leptos", "Leptos", "framework">>,
       <<"yew", "Yew", "framework">>,
       <<"tauri", "Tauri", "framework">>,
       <<"wasm-bindgen", "WebAssembly", "tool">> >>

RUBY_MAP ==
    << <<"rails", "Ruby on Rails", "framework">>,
       <<"sinatra", "Sinatra", "framework">>,
       <<"sidekiq", "Sidekiq", "tool">>,
       <<"rspec", "RSpec", "tool">> >>

GO_MAP ==
    << <<"github.com/gin-gonic/gin", "Gin", "framework">>,
       <<"github.com/gorilla/mux", "Gorilla Mux", "framework">>,
       <<"github.com/labstack/echo", "Echo", "framework">>,
       <<"github.com/gofiber/fiber", "Fiber", "framework">>,
       <<"gorm.io/gorm", "GORM", "tool">> >>

PHP_MAP ==
    << <<"laravel/framework", "Laravel", "framework">>,
       <<"symfony/symfony", "Symfony", "framework">>,
       <<"slim/slim", "Slim", "framework">> >>

PYPROJECT_MAP ==
    << <<"django", "Django", "framework">>,
       <<"flask", "Flask", "framework">>,
       <<"fastapi", "FastAPI", "framework">>,
       <<"tornado", "Tornado", "framework">>,
       <<"celery", "Celery", "tool">>,
       <<"sqlalchemy", "SQLAlchemy", "tool">>,
       <<"pandas", "pandas", "framework">>,
       <<"numpy", "NumPy", "framework">>,
       <<"scipy", "SciPy", "framework">>,
       <<"scikit-learn", "scikit-learn", "framework">>,
       <<"tensorflow", "TensorFlow", "framework">>,
       <<"torch", "PyTorch", "framework">>,
       <<"pytest", "pytest", "tool">>,
       <<"pydantic", "Pydantic", "tool">>,
       <<"requests", "Requests", "tool">>,
       <<"boto3", "AWS SDK", "tool">>,
       <<"redis", "Redis", "tool">>,
       <<"psycopg2", "PostgreSQL", "tool">> >>

LANGUAGE_TABLE ==
    { <<"py", "Python">>, <<"js", "JavaScript">>, <<"jsx", "JavaScript">>, <<"ts", "TypeScript">>,
      <<"tsx", "TypeScript">>, <<"rs", "Rust">>, <<"go", "Go">>, <<"rb", "Ruby">>,
      <<"java", "Java">>, <<"kt", "Kotlin">>, <<"swift", "Swift">>, <<"c", "C">>,
      <<"h", "C">>, <<"cpp", "C++">>, <<"cc", "C++">>, <<"cxx", "C++">>,
      <<"hpp", "C++">>, <<"cs", "C#">>, <<"php", "PHP">>, <<"scala", "Scala">>,
      <<"r", "R">>, <<"R", "R">>, <<"dart", "Dart">>, <<"lua", "Lua">>,
      <<"ex", "Elixir">>, <<"exs", "Elixir">>, <<"erl", "Erlang">>, <<"hrl", "Erlang">>,
      <<"hs", "Haskell">>, <<"ml", "OCaml">>, <<"mli", "OCaml">>, <<"clj", "Clojure">>,
      <<"cljs", "Clojure">>, <<"jl", "Julia">>, <<"zig", "Zig">>, <<"svelte", "Svelte">>,
      <<"vue", "Vue">>, <<"html", "HTML">>, <<"htm", "HTML">>, <<"css", "CSS">>,
      <<"scss", "SCSS">>, <<"sass", "SCSS">>, <<"less", "Less">>, <<"sql", "SQL">>,
      <<"sh", "Shell">>, <<"bash", "Shell">>, <<"zsh", "Shell">>, <<"ps1", "PowerShell">> }

BINARY_EXTENSIONS ==
    { "png", "jpg", "jpeg", "gif", "bmp", "ico", "svg", "webp", "woff", "woff2",
      "ttf", "eot", "otf", "mp3", "mp4", "wav", "avi", "mov", "mkv", "zip",
      "tar", "gz", "bz2", "xz", "7z", "rar", "exe", "dll", "so", "dylib",
      "a", "o", "obj", "wasm", "pyc", "pyo", "class", "pdf", "doc", "docx",
      "xls", "xlsx", "db", "sqlite", "sqlite3" }

SKIP_DIRS == {"node_modules", "vendor", "__pycache__", "target", "build", "dist", ".git"}

\* Each hidden indicator with the path components that root.join(indicator) names.
HIDDEN_INDICATORS ==
    << <<".github/workflows", <<".github", "workflows">> >>,
       <<".gitlab-ci.yml", <<".gitlab-ci.yml">> >>,
       <<".circleci", <<".circleci">> >>,
       <<".eslintrc.js", <<".eslintrc.js">> >>,
       <<".eslintrc.json", <<".eslintrc.json">> >>,
       <<".prettierrc", <<".prettierrc">> >>,
       <<".travis.yml", <<".travis.yml">> >> >>

\* Rust's order of strings (bytewise) on the display names of all tables.
SIGNAL_NAME_ORDER ==
    << "AWS SDK", "Actix Web", "Angular", "Ansible", "Apollo", "Axum", "Celery",
       "CircleCI", "Diesel", "Django", "Docker", "Docker Compose", "ESLint", "Echo",
       "Electron", "Express", "FastAPI", "Fastify", "Fiber", "Firebase", "Flask",
       "Fly.io", "GORM", "Gatsby", "Gin", "GitHub Actions", "GitLab CI", "Go",
       "Gorilla Mux", "Gradle", "GraphQL", "Helm", "Jenkins", "Jest", "Koa",
       "Kubernetes", "Laravel", "Leptos", "Maven", "Mocha", "MongoDB", "Mongoose",
       "NestJS", "Netlify", "Next.js", "Nginx", "NumPy", "Nuxt", "PHP", "PostgreSQL",
       "Prettier", "Prisma", "PyTorch", "Pydantic", "Python Package", "RSpec", "React",
       "React Native", "Redis", "Remix", "Render", "Requests", "Rocket", "Ruby",
       "Ruby on Rails", "Rust", "SQLAlchemy", "SQLx", "SciPy", "Sequelize", "Serde",
       "Sidekiq", "Sinatra", "Slim", "Socket.IO", "Supabase", "Svelte", "Symfony",
       "Tailwind CSS", "Tauri", "TensorFlow", "Terraform", "Three.js", "Tokio",
       "Tornado", "Travis CI", "TypeScript", "Vagrant", "Vercel", "Vite", "Vue",
       "WebAssembly", "Webpack", "Yew", "pandas", "pytest", "scikit-learn" >>

\* Rust's order of strings on the language names of LANGUAGE_TABLE.
LANGUAGE_NAME_ORDER ==
    << "C", "C#", "C++", "CSS", "Clojure", "Dart", "Elixir", "Erlang", "Go", "HTML",
       "Haskell", "Java", "JavaScript", "Julia", "Kotlin", "Less", "Lua", "OCaml",
       "PHP", "PowerShell", "Python", "R", "Ruby", "Rust", "SCSS", "SQL", "Scala",
       "Shell", "Svelte", "Swift", "TypeScript", "Vue", "Zig" >>

\* Rust's order of strings on the structure tags.
STRUCTURE_TAG_ORDER ==
    << "makefile", "monorepo", "node_project", "python_package", "src_layout" >>

\* ---------------------------------------------------------------- helpers
Range(s) == {s[k] : k \in 1..Len(s)}

Rank(order, x) == CHOOSE k \in 1..Len(order) : order[k] = x

\* The elements of S as a sequence ascending in the given order.
RECURSIVE SortedSeq(_, _)
SortedSeq(S, order) ==
    IF S = {} THEN <<>>
    ELSE LET m == CHOOSE x \in S : \A y \in S : Rank(order, x) <= Rank(order, y)
         IN  <<m>> \o SortedSeq(S \ {m}, order)

\* All orders in which the elements of S can be enumerated.
RECURSIVE Orders(_)
Orders(S) ==
    IF S = {} THEN {<<>>}
    ELSE UNION {{<<x>> \o t : t \in Orders(S \ {x})} : x \in S}

RECURSIVE SumOver(_, _)
SumOver(f, S) ==
    IF S = {} THEN 0
    ELSE LET x == CHOOSE y \in S : TRUE IN f[x] + SumOver(f, S \ {x})

\* HashMap<String, _>: a function from its keys.
EmptyMap == <<>>

\* HashMap::insert.
Insert(map, k, v) == [x \in DOMAIN map \cup {k} |-> IF x = k THEN v ELSE map[x]]

\* The words a manifest's text is made of in this model.
WORDS ==
    { "flask==2.3.0", "Django>=4.2", "torchvision", "pytest-django",
      "tokio", "serde_json", "actix-web", "gem 'rails'", "rspec-rails",
      "github.com/gin-gonic/gin", "github.com/Gin-Gonic/Gin" }

\* str::contains on the words: <<w, k>> is listed when table keyword k occurs in w.
OCCURS_IN ==
    { <<"flask==2.3.0", "flask">>,
      <<"torchvision", "torch">>,
      <<"pytest-django", "django">>,
      <<"pytest-django", "pytest">>,
      <<"tokio", "tokio">>,
      <<"serde_json", "serde">>,
      <<"actix-web", "actix-web">>,
      <<"gem 'rails'", "rails">>,
      <<"rspec-rails", "rails">>,
      <<"rspec-rails", "rspec">>,
      <<"github.com/gin-gonic/gin", "github.com/gin-gonic/gin">> }

\* The same on w.to_lowercase().
OCCURS_IN_LOWERCASE ==
    { <<"flask==2.3.0", "flask">>,
      <<"Django>=4.2", "django">>,
      <<"torchvision", "torch">>,
      <<"pytest-django", "django">>,
      <<"pytest-django", "pytest">>,
      <<"tokio", "tokio">>,
      <<"serde_json", "serde">>,
      <<"actix-web", "actix-web">>,
      <<"gem 'rails'", "rails">>,
      <<"rspec-rails", "rails">>,
      <<"rspec-rails", "rspec">>,
      <<"github.com/gin-gonic/gin", "github.com/gin-gonic/gin">>,
      <<"github.com/Gin-Gonic/Gin", "github.com/gin-gonic/gin">> }

\* ----------------------------------------------------------- file names
\* The parts of a file name that follow its stem, split at the dots
\* (".eslintrc.js" has the stem ".eslintrc"; a name that is not listed has none).
DotParts(name) ==
    CASE name = "main.py" -> <<"py">>
      [] name = "app.js" -> <<"js">>
      [] name = "dep.js" -> <<"js">>
      [] name = "bundle.js.gz" -> <<"js", "gz">>
      [] name = ".eslintrc.js" -> <<"js">>
      [] name = "webpack.config.js" -> <<"config", "js">>
      [] name = "package.json" -> <<"json">>
      [] name = "setup.py" -> <<"py">>
      [] name = ".hidden.py" -> <<"py">>
      [] name = "requirements.txt" -> <<"txt">>
      [] name = "pyproject.toml" -> <<"toml">>
      [] name = "Cargo.toml" -> <<"toml">>
      [] name = "composer.json" -> <<"json">>
      [] name = "go.mod" -> <<"mod">>
      [] OTHER -> <<>>

\* The names that start with a dot: the walker's hidden(true) filter drops them.
DOT_NAMES ==
    { ".git", ".github", ".gitlab-ci.yml", ".circleci", ".eslintrc.js",
      ".eslintrc.json", ".prettierrc", ".travis.yml", ".hidden.py" }

IsHidden(name) == name \in DOT_NAMES

NoExt == "<no extension>"
NoLanguage == "<no language>"

\* The extension taken behind the first dot that follows the stem.
ExtensionFirst(name) ==
    IF DotParts(name) = <<>> THEN NoExt ELSE DotParts(name)[1]

\* Path::extension: what follows the last dot of the file name.
Extension(name) ==
    IF DotParts(name) = <<>> THEN NoExt ELSE DotParts(name)[Len(DotParts(name))]

\* ------------------------------------------------------ language classifier
extension_to_language(ext) ==
    LET hit == {p \in LANGUAGE_TABLE : p[1] = ext}
    IN  IF hit = {} THEN NoLanguage ELSE (CHOOSE p \in hit : TRUE)[2]

is_binary_extension(ext) == ext \in BINARY_EXTENSIONS

\* *bytes_by_lang.entry(lang).or_insert(0) += size
record_language(name, size, bytes_by_lang) ==
    IF Extension(name) = NoExt THEN bytes_by_lang
    ELSE LET lang == extension_to_language(Extension(name))
         IN  IF lang = NoLanguage THEN bytes_by_lang
             ELSE Insert(bytes_by_lang, lang,
                         (IF lang \in DOMAIN bytes_by_lang THEN bytes_by_lang[lang] ELSE 0)
                             + size)

\* 0.0 / 0.0 in f64.
NaN == -1

\* The share scaled by 100.0 instead of 1000.0: whole percents where tenths are due.
PercentageWholePercents(bytes, total) ==
    IF total = 0 THEN NaN ELSE (200 * bytes + total) \div (2 * total)

\* ((bytes as f64 / total as f64) * 1000.0).round(), the percentage in tenths.
Percentage(bytes, total) ==
    IF total = 0 THEN NaN ELSE (2000 * bytes + total) \div (2 * total)

LanguageEntry(name, bytes, total) ==
    [name |-> name, category |-> "language", percentage |-> Percentage(bytes, total)]

\* Vec::sort_by(|a, b| b.percentage.partial_cmp(&a.percentage).unwrap()): a stable
\* sort, so an entry goes behind every entry whose percentage is not smaller.
RECURSIVE SortByPercentageDesc(_)
SortByPercentageDesc(entries) ==
    IF entries = <<>> THEN <<>>
    ELSE LET n == Len(entries)
             e == entries[n]
             sorted == SortByPercentageDesc(SubSeq(entries, 1, n - 1))
             k == Cardinality({j \in 1..Len(sorted) : sorted[j].percentage >= e.percentage})
         IN  SubSeq(sorted, 1, k) \o <<e>> \o SubSeq(sorted, k + 1, Len(sorted))

\* build_language_list with the guard on the map being empty instead of on the total.
BuildLanguageListGuardEmpty(bytes_by_lang, iter) ==
    LET total == SumOver(bytes_by_lang, DOMAIN bytes_by_lang)
    IN  IF DOMAIN bytes_by_lang = {} THEN <<>>
        ELSE SortByPercentageDesc(
                 [k \in 1..Len(iter) |->
                     LanguageEntry(iter[k], bytes_by_lang[iter[k]], total)])

\* build_language_list with each share truncated instead of rounded.
BuildLanguageListTruncating(bytes_by_lang, iter) ==
    LET total == SumOver(bytes_by_lang, DOMAIN bytes_by_lang)
    IN  IF total = 0 THEN <<>>
        ELSE SortByPercentageDesc(
                 [k \in 1..Len(iter) |->
                     [name |-> iter[k], category |-> "language",
                      percentage |-> (1000 * bytes_by_lang[iter[k]]) \div total]])

\* build_language_list; iter is the order in which bytes_by_lang.iter() yields the keys.
build_language_list(bytes_by_lang, iter) ==
    LET total == SumOver(bytes_by_lang, DOMAIN bytes_by_lang)
    IN  IF total = 0 THEN <<>>
        ELSE SortByPercentageDesc(
                 [k \in 1..Len(iter) |->
                     LanguageEntry(iter[k], bytes_by_lang[iter[k]], total)])

\* ---------------------------------------------------------- signal detector
\* for &(indicator, name, category) in FRAMEWORK_INDICATORS, from entry k on.
RECURSIVE DetectFileIndicatorsFrom(_, _, _, _)
DetectFileIndicatorsFrom(k, top_level_names, frameworks, infra) ==
    IF k > Len(FRAMEWORK_INDICATORS) THEN [frameworks |-> frameworks, infra |-> infra]
    ELSE LET t == FRAMEWORK_INDICATORS[k]
         IN  IF t[1] \in Range(top_level_names)
             THEN IF t[3] = "infrastructure"
                  THEN DetectFileIndicatorsFrom(k + 1, top_level_names, frameworks,
                                                Insert(infra, t[2], t[3]))
                  ELSE DetectFileIndicatorsFrom(k + 1, top_level_names,
                                                Insert(frameworks, t[2], t[3]), infra)
             ELSE DetectFileIndicatorsFrom(k + 1, top_level_names, frameworks, infra)

\* detect_file_indicators without the branch on the category: every present
\* entry is written to the generic map.
RECURSIVE DetectFileIndicatorsUnroutedFrom(_, _, _, _)
DetectFileIndicatorsUnroutedFrom(k, top_level_names, frameworks, infra) ==
    IF k > Len(FRAMEWORK_INDICATORS) THEN [frameworks |-> frameworks, infra |-> infra]
    ELSE LET t == FRAMEWORK_INDICATORS[k]
         IN  IF t[1] \in Range(top_level_names)
             THEN DetectFileIndicatorsUnroutedFrom(k + 1, top_level_names,
                                                   Insert(frameworks, t[2], t[3]), infra)
             ELSE DetectFileIndicatorsUnroutedFrom(k + 1, top_level_names, frameworks, infra)

DetectFileIndicatorsUnrouted(top_level_names, frameworks, infra) ==
    DetectFileIndicatorsUnroutedFrom(1, top_level_names, frameworks, infra)

detect_file_indicators(top_level_names, frameworks, infra) ==
    DetectFileIndicatorsFrom(1, top_level_names, frameworks, infra)

\* into_sorted_entries that sorts the wrong way round.
IntoEntriesDescending(map) ==
    LET names == SortedSeq(DOMAIN map, SIGNAL_NAME_ORDER)
        n == Len(names)
    IN  [k \in 1..n |-> [name |-> names[n + 1 - k], category |-> map[names[n + 1 - k]]]]

\* into_sorted_entries: the map's entries, sorted by the derived Ord of SignalEntry
\* (name, then category); the names of a map are distinct.
into_sorted_entries(map) ==
    LET names == SortedSeq(DOMAIN map, SIGNAL_NAME_ORDER)
    IN  [k \in 1..Len(names) |-> [name |-> names[k], category |-> map[names[k]]]]

\* -------------------------------------------------------- structure detector
\* Vec::sort on a list of tags.
RECURSIVE SortTags(_)
SortTags(tags) ==
    IF tags = <<>> THEN <<>>
    ELSE LET n == Len(tags)
             sorted == SortTags(SubSeq(tags, 1, n - 1))
             k == Cardinality({j \in 1..Len(sorted) :
                     Rank(STRUCTURE_TAG_ORDER, sorted[j]) <= Rank(STRUCTURE_TAG_ORDER, tags[n])})
         IN  SubSeq(sorted, 1, k) \o <<tags[n]>> \o SubSeq(sorted, k + 1, Len(sorted))

\* detect_structures without the final sort: the tags in the order of the rules.
DetectStructuresUnsorted(top_level_names) ==
    LET names == Range(top_level_names)
    IN  (IF "src" \in names THEN <<"src_layout">> ELSE <<>>)
     \o (IF "packages" \in names \/ "libs" \in names THEN <<"monorepo">> ELSE <<>>)
     \o (IF "setup.py" \in names \/ "pyproject.toml" \in names
         THEN <<"python_package">> ELSE <<>>)
     \o (IF "package.json" \in names THEN <<"node_project">> ELSE <<>>)
     \o (IF "Makefile" \in names THEN <<"makefile">> ELSE <<>>)

detect_structures(top_level_names) ==
    LET names == Range(top_level_names)
    IN  SortTags(
            (IF "src" \in names THEN <<"src_layout">> ELSE <<>>)
         \o (IF "packages" \in names \/ "libs" \in names THEN <<"monorepo">> ELSE <<>>)
         \o (IF "setup.py" \in names \/ "pyproject.toml" \in names
             THEN <<"python_package">> ELSE <<>>)
         \o (IF "package.json" \in names THEN <<"node_project">> ELSE <<>>)
         \o (IF "Makefile" \in names THEN <<"makefile">> ELSE <<>>))

\* ------------------------------------------------------------- file system
\* What a file holds, as far as the manifest parsers read it: whether
\* fs::read_to_string succeeds, whether the text parses as JSON, the keys of its
\* two dependency objects (dependencies / devDependencies, require / require-dev;
\* empty when the value is missing or no object) and the words of its text.
NoContent ==
    [readable |-> TRUE, parses |-> FALSE, deps |-> {}, dev |-> {}, text |-> {}]

Json(deps, dev) ==
    [readable |-> TRUE, parses |-> TRUE, deps |-> deps, dev |-> dev, text |-> {}]

\* A leaf of the tree below a root: a file, or a directory with nothing in it.
\* ignored: an ignore rule covers the top-level component of its path.
File(root, parents, name, size, ignored, content) ==
    [root |-> root, parents |-> parents, name |-> name, isdir |-> FALSE,
     size |-> size, ignored |-> ignored, content |-> content]

Dir(root, parents, name) ==
    [root |-> root, parents |-> parents, name |-> name, isdir |-> TRUE,
     size |-> 0, ignored |-> FALSE, content |-> NoContent]

RelPath(e) == e.parents \o <<e.name>>

Leaves(tree, root) == {e \in tree : e.root = root}

\* Path::exists on root.join(path).
PathExists(tree, root, path) ==
    \E e \in Leaves(tree, root) :
        /\ Len(RelPath(e)) >= Len(path)
        /\ SubSeq(RelPath(e), 1, Len(path)) = path

\* Everything below the root: the leaves and the directories on their paths.
Nodes(tree, root) ==
    UNION {{[path |-> SubSeq(RelPath(e), 1, k),
             is_dir |-> (k < Len(RelPath(e))) \/ e.isdir,
             size |-> IF k = Len(RelPath(e)) THEN e.size ELSE 0,
             ignored |-> e.ignored] : k \in 1..Len(RelPath(e))}
           : e \in Leaves(tree, root)}

RECURSIVE SeqOf(_)
SeqOf(S) ==
    IF S = {} THEN <<>>
    ELSE LET x == CHOOSE y \in S : TRUE IN <<x>> \o SeqOf(S \ {x})

\* WalkBuilder::new(root).hidden(true).git_ignore(true)...build(), flattened: the
\* root itself, then every node with no hidden component that no ignore rule covers.
\* The order among the entries is the directory order, fixed for a given tree.
Walker(tree, root) ==
    <<[path |-> <<>>, is_dir |-> TRUE, size |-> 0, ignored |-> FALSE]>>
    \o SeqOf({n \in Nodes(tree, root) :
                 /\ ~n.ignored
                 /\ \A k \in 1..Len(n.path) : ~IsHidden(n.path[k])})

FileName(n) == n.path[Len(n.path)]

\* fs::read_to_string(dir.join(name)).
ReadError == [readable |-> FALSE, parses |-> FALSE, deps |-> {}, dev |-> {}, text |-> {}]

\* read_to_string that finds only the files the walker yields.
ReadToStringYieldedOnly(tree, root, name) ==
    LET hit == {e \in Leaves(tree, root) : RelPath(e) = <<name>> /\ ~e.isdir /\ ~e.ignored}
    IN  IF hit = {} THEN ReadError
        ELSE LET e == CHOOSE x \in hit : TRUE
             IN  IF e.content.readable THEN e.content ELSE ReadError

read_to_string(tree, root, name) ==
    LET hit == {e \in Leaves(tree, root) : RelPath(e) = <<name>> /\ ~e.isdir}
    IN  IF hit = {} THEN ReadError
        ELSE LET e == CHOOSE x \in hit : TRUE
             IN  IF e.content.readable THEN e.content ELSE ReadError

\* ------------------------------------------------------------------ walker
\* check_hidden_indicators that pushes every single-component indicator only.
RECURSIVE CheckHiddenTopLevelOnlyFrom(_, _, _, _)
CheckHiddenTopLevelOnlyFrom(k, tree, root, top_level_names) ==
    IF k > Len(HIDDEN_INDICATORS) THEN top_level_names
    ELSE LET h == HIDDEN_INDICATORS[k]
         IN  CheckHiddenTopLevelOnlyFrom(k + 1, tree, root,
                 IF /\ Len(h[2]) = 1
                    /\ PathExists(tree, root, h[2])
                    /\ h[1] \notin Range(top_level_names)
                 THEN Append(top_level_names, h[1]) ELSE top_level_names)

CheckHiddenTopLevelOnly(tree, root, top_level_names) ==
    CheckHiddenTopLevelOnlyFrom(1, tree, root, top_level_names)

\* check_hidden_indicators without the test that the path exists.
RECURSIVE CheckHiddenNoExistsFrom(_, _)
CheckHiddenNoExistsFrom(k, top_level_names) ==
    IF k > Len(HIDDEN_INDICATORS) THEN top_level_names
    ELSE CheckHiddenNoExistsFrom(k + 1,
             IF HIDDEN_INDICATORS[k][1] \notin Range(top_level_names)
             THEN Append(top_level_names, HIDDEN_INDICATORS[k][1]) ELSE top_level_names)

CheckHiddenNoExists(tree, root, top_level_names) ==
    CheckHiddenNoExistsFrom(1, top_level_names)

\* for &indicator in HIDDEN_INDICATORS, from entry k on.
RECURSIVE CheckHiddenIndicatorsFrom(_, _, _, _)
CheckHiddenIndicatorsFrom(k, tree, root, top_level_names) ==
    IF k > Len(HIDDEN_INDICATORS) THEN top_level_names
    ELSE LET h == HIDDEN_INDICATORS[k]
         IN  CheckHiddenIndicatorsFrom(k + 1, tree, root,
                 IF PathExists(tree, root, h[2]) /\ h[1] \notin Range(top_level_names)
                 THEN Append(top_level_names, h[1]) ELSE top_level_names)

check_hidden_indicators(tree, root, top_level_names) ==
    CheckHiddenIndicatorsFrom(1, tree, root, top_level_names)

\* The body of scan_directory's loop that records the name of an entry at any
\* depth, not at depth 1 only.
ScanDirectoryEntryAnyDepth(n, st) ==
    IF n.path = <<>> THEN st
    ELSE LET names == Append(st.top_level_names, n.path[Len(n.path)])
         IN  IF n.is_dir
             THEN [st EXCEPT !.top_level_names = names]
             ELSE IF /\ Extension(n.path[Len(n.path)]) # NoExt
                     /\ is_binary_extension(Extension(n.path[Len(n.path)]))
                  THEN [st EXCEPT !.top_level_names = names]
                  ELSE [top_level_names |-> names,
                        bytes_by_lang |->
                            record_language(n.path[Len(n.path)], n.size, st.bytes_by_lang)]

\* The body of scan_directory's loop on one entry of the walk; st holds
\* top_level_names and bytes_by_lang.
ScanDirectoryEntry(n, st) ==
    IF n.path = <<>> THEN st
    ELSE LET names == IF Len(n.path) = 1
                      THEN Append(st.top_level_names, FileName(n))
                      ELSE st.top_level_names
         IN  IF n.is_dir
             THEN IF FileName(n) \in SKIP_DIRS
                  THEN [st EXCEPT !.top_level_names = names]
                  ELSE [st EXCEPT !.top_level_names = names]
             ELSE IF /\ Extension(FileName(n)) # NoExt
                     /\ is_binary_extension(Extension(FileName(n)))
                  THEN [st EXCEPT !.top_level_names = names]
                  ELSE [top_level_names |-> names,
                        bytes_by_lang |->
                            record_language(FileName(n), n.size, st.bytes_by_lang)]

RECURSIVE ScanDirectoryLoop(_, _)
ScanDirectoryLoop(entries, st) ==
    IF entries = <<>> THEN st
    ELSE ScanDirectoryLoop(Tail(entries), ScanDirectoryEntry(Head(entries), st))

\* scan_directory's walk of one root.
ScanDirectoryWalk(tree, root) ==
    ScanDirectoryLoop(Walker(tree, root),
                      [top_level_names |-> <<>>, bytes_by_lang |-> EmptyMap])

\* The body of scan_directories' second loop on one entry of the walk.
CombinedWalkEntry(n, bytes_by_lang) ==
    IF n.is_dir THEN bytes_by_lang
    ELSE IF /\ Extension(FileName(n)) # NoExt
            /\ is_binary_extension(Extension(FileName(n)))
         THEN bytes_by_lang
         ELSE record_language(FileName(n), n.size, bytes_by_lang)

RECURSIVE CombinedWalkLoop(_, _)
CombinedWalkLoop(entries, bytes_by_lang) ==
    IF entries = <<>> THEN bytes_by_lang
    ELSE CombinedWalkLoop(Tail(entries), CombinedWalkEntry(Head(entries), bytes_by_lang))

\* scan_directories' second loop merging each root's rounded shares instead of its bytes.
CombinedWalkWeights(tree, root, bytes_by_lang) ==
    LET own == ScanDirectoryWalk(tree, root).bytes_by_lang
        total == SumOver(own, DOMAIN own)
    IN  [l \in DOMAIN bytes_by_lang \cup DOMAIN own |->
            (IF l \in DOMAIN bytes_by_lang THEN bytes_by_lang[l] ELSE 0)
          + (IF l \in DOMAIN own /\ total > 0 THEN Percentage(own[l], total) ELSE 0)]

\* One round of scan_directories' second loop: the walk of one root.
CombinedWalk(tree, root, bytes_by_lang) ==
    CombinedWalkLoop(Walker(tree, root), bytes_by_lang)

\* ------------------------------------------------------- dependency parsers
\* for &(key, name, category) in table, from entry k on: insert when the key matches.
RECURSIVE InsertMatches(_, _, _, _)
InsertMatches(table, k, matches, frameworks) ==
    IF k > Len(table) THEN frameworks
    ELSE InsertMatches(table, k + 1, matches,
             IF table[k][1] \in matches
             THEN Insert(frameworks, table[k][2], table[k][3]) ELSE frameworks)

TableKeys(table) == {table[k][1] : k \in 1..Len(table)}

\* lower.contains(key) for the keys of a table.
ContainedLowercase(table, text) ==
    {key \in TableKeys(table) : \E w \in text : <<w, key>> \in OCCURS_IN_LOWERCASE}

\* content.contains(key) for the keys of a table.
Contained(table, text) ==
    {key \in TableKeys(table) : \E w \in text : <<w, key>> \in OCCURS_IN}

\* <<d, key>> is listed when table key `key` occurs in the dependency name d, d # key.
KEY_OCCURS_IN ==
    { <<"react-native", "react">>, <<"vue-router", "vue">>, <<"ts-jest", "jest">> }

\* detect_npm matching with contains instead of ==.
DetectNpmContains(tree, root, frameworks) ==
    LET c == read_to_string(tree, root, "package.json")
    IN  IF ~c.readable \/ ~c.parses THEN frameworks
        ELSE InsertMatches(NPM_MAP, 1,
                 (c.deps \cup c.dev)
                 \cup {p[2] : p \in {q \in KEY_OCCURS_IN : q[1] \in c.deps \cup c.dev}},
                 frameworks)

\* detect_npm that leaves an empty map behind when package.json is no JSON.
DetectNpmParseErrorClears(tree, root, frameworks) ==
    LET c == read_to_string(tree, root, "package.json")
    IN  IF ~c.readable THEN frameworks
        ELSE IF ~c.parses THEN EmptyMap
        ELSE InsertMatches(NPM_MAP, 1, c.deps \cup c.dev, frameworks)

detect_npm(tree, root, frameworks) ==
    LET c == read_to_string(tree, root, "package.json")
    IN  IF ~c.readable THEN frameworks
        ELSE IF ~c.parses THEN frameworks
        ELSE InsertMatches(NPM_MAP, 1, c.deps \cup c.dev, frameworks)

detect_python(tree, root, frameworks) ==
    LET c == read_to_string(tree, root, "requirements.txt")
    IN  IF ~c.readable THEN frameworks
        ELSE InsertMatches(PYTHON_MAP, 1, ContainedLowercase(PYTHON_MAP, c.text), frameworks)

detect_rust(tree, root, frameworks) ==
    LET c == read_to_string(tree, root, "Cargo.toml")
    IN  IF ~c.readable THEN frameworks
        ELSE InsertMatches(RUST_MAP, 1, ContainedLowercase(RUST_MAP, c.text), frameworks)

detect_ruby(tree, root, frameworks) ==
    LET c == read_to_string(tree, root, "Gemfile")
    IN  IF ~c.readable THEN frameworks
        ELSE InsertMatches(RUBY_MAP, 1, ContainedLowercase(RUBY_MAP, c.text), frameworks)

detect_go(tree, root, frameworks) ==
    LET c == read_to_string(tree, root, "go.mod")
    IN  IF ~c.readable THEN frameworks
        ELSE InsertMatches(GO_MAP, 1, Contained(GO_MAP, c.text), frameworks)

detect_php(tree, root, frameworks) ==
    LET c == read_to_string(tree, root, "composer.json")
    IN  IF ~c.readable THEN frameworks
        ELSE IF ~c.parses THEN frameworks
        ELSE InsertMatches(PHP_MAP, 1, c.deps \cup c.dev, frameworks)

detect_pyproject(tree, root, frameworks) ==
    LET c == read_to_string(tree, root, "pyproject.toml")
    IN  IF ~c.readable THEN frameworks
        ELSE InsertMatches(PYPROJECT_MAP, 1, ContainedLowercase(PYPROJECT_MAP, c.text),
                           frameworks)

\* detect_all whose parsers write a map of their own, which replaces the caller's.
DetectAllOnFreshMap(tree, root, frameworks) ==
    detect_php(tree, root,
      detect_go(tree, root,
        detect_ruby(tree, root,
          detect_rust(tree, root,
            detect_pyproject(tree, root,
              detect_python(tree, root,
                detect_npm(tree, root, EmptyMap)))))))

detect_all(tree, root, frameworks) ==
    detect_php(tree, root,
      detect_go(tree, root,
        detect_ruby(tree, root,
          detect_rust(tree, root,
            detect_pyproject(tree, root,
              detect_python(tree, root,
                detect_npm(tree, root, frameworks)))))))

\* ------------------------------------------------------------------ inputs
ROOT_NAMES == {"A", "B"}

\* package.json texts: one that is no JSON, and three that are.
PACKAGE_JSONS ==
    { NoContent,
      Json({"react"}, {}),
      Json({"react-native"}, {}),
      Json({"left-pad"}, {"typescript"}) }

\* The leaves a tree below root r is built from.
Candidates(r) ==
    {File(r, <<>>, "main.py", s, FALSE, NoContent) : s \in 0..MaxSize}
    \cup {File(r, <<>>, "app.js", s, FALSE, NoContent) : s \in 0..MaxSize}
    \cup {File(r, <<>>, "bundle.js.gz", s, FALSE, NoContent) : s \in 0..MaxSize}
    \cup {File(r, <<"node_modules">>, "dep.js", MaxSize, g, NoContent) : g \in BOOLEAN}
    \cup {File(r, <<>>, "main.py", MaxSize, TRUE, NoContent)}
    \cup {File(r, <<>>, "package.json", MaxSize, FALSE, c) : c \in PACKAGE_JSONS}
    \cup { Dir(r, <<".github">>, "workflows"),
           File(r, <<>>, ".eslintrc.js", MaxSize, FALSE, NoContent),
           File(r, <<>>, "Dockerfile", MaxSize, FALSE, NoContent),
           File(r, <<>>, "webpack.config.js", MaxSize, FALSE, NoContent),
           File(r, <<>>, "setup.py", MaxSize, FALSE, NoContent),
           File(r, <<>>, ".hidden.py", MaxSize, FALSE, NoContent) }

RECURSIVE SubsetsUpTo(_, _)
SubsetsUpTo(S, k) ==
    IF k = 0 THEN {{}}
    ELSE LET smaller == SubsetsUpTo(S, k - 1)
         IN  smaller \cup {t \cup {x} : t \in smaller, x \in S}

\* No two leaves of a tree have the same path.
WellFormed(tree) ==
    \A e1, e2 \in tree : (e1.root = e2.root /\ RelPath(e1) = RelPath(e2)) => e1 = e2

FileSystems ==
    {t \in SubsetsUpTo(UNION {Candidates(r) : r \in ROOT_NAMES}, MaxFiles) : WellFormed(t)}

RECURSIVE SeqsUpTo(_, _)
SeqsUpTo(S, k) ==
    IF k = 0 THEN {<<>>}
    ELSE LET shorter == SeqsUpTo(S, k - 1)
         IN  shorter \cup {Append(s, x) : s \in shorter, x \in S}

\* ------------------------------------------------------------------- state
VARIABLES
    fs,                 \* the file system: a set of leaves
    mode,               \* "single": scan_directory(roots[1]); "multi": scan_directories(roots)
    roots,              \* the roots of the call
    pc,                 \* the position in the call
    run,                \* 1 for the first execution of the call, 2 for its repetition
    first,              \* the ScanResult of the first execution
    i,                  \* the index of the root the current loop is at
    bytes_by_lang,      \* scan_directory: HashMap<String, u64>
    top_level_names,    \* scan_directory: Vec<String>
    frameworks,         \* scan_directory: HashMap<String, String>
    infra,              \* scan_directory: HashMap<String, String>
    project_structures, \* scan_directory: Vec<String>
    sd_result,          \* the ScanResult scan_directory returned
    m_bytes_by_lang,    \* scan_directories: HashMap<String, u64>
    m_frameworks,       \* scan_directories: HashMap<String, String>
    m_infra,            \* scan_directories: HashMap<String, String>
    all_structures,     \* scan_directories: BTreeSet<String>
    result,             \* the ScanResult of the call
    walks,              \* the roots a walker was built for, in the order of the walks
    seen,               \* the file system as each of these walks found it
    changes,            \* how often the tree was changed while the call ran
    cli,                \* main: the parsed command line (Cli)
    stdout,             \* main: what was written to standard output
    stderr,             \* main: what was written to standard error
    exit_code           \* main: empty while the process runs, then its exit code

vars ==
    << fs, mode, roots, pc, run, first, i, bytes_by_lang, top_level_names, frameworks,
       infra, project_structures, sd_result, m_bytes_by_lang, m_frameworks, m_infra,
       all_structures, result, walks, seen, changes, cli, stdout, stderr, exit_code >>

ScanResult(languages, fw, structures, infrastructure_signals) ==
    [languages |-> languages, frameworks |-> fw, project_structures |-> structures,
     infrastructure_signals |-> infrastructure_signals]

EmptyResult == ScanResult(<<>>, <<>>, <<>>, <<>>)

\* The library is called directly: there is no command line and no process.
NoCli ==
    [invoked |-> FALSE, path |-> "", paths_given |-> FALSE, paths |-> <<>>,
     pretty |-> FALSE, stats |-> FALSE]

NotFromCli ==
    /\ cli = NoCli
    /\ stdout = <<>>
    /\ stderr = <<>>
    /\ exit_code = <<>>

\* The locals of scan_directory and of scan_directories as a call starts.
FreshLocals ==
    /\ i = 1
    /\ bytes_by_lang = EmptyMap
    /\ top_level_names = <<>>
    /\ frameworks = EmptyMap
    /\ infra = EmptyMap
    /\ project_structures = <<>>
    /\ sd_result = EmptyResult
    /\ m_bytes_by_lang = EmptyMap
    /\ m_frameworks = EmptyMap
    /\ m_infra = EmptyMap
    /\ all_structures = {}
    /\ result = EmptyResult
    /\ walks = <<>>
    /\ seen = <<>>

Init ==
    /\ fs \in FileSystems
    /\ mode \in {"single", "multi"}
    /\ roots \in IF mode = "single" THEN {<<r>> : r \in ROOT_NAMES}
                 ELSE SeqsUpTo(ROOT_NAMES, MaxRoots)
    /\ pc = "start"
    /\ run = 1
    /\ changes = 0
    /\ first = EmptyResult
    /\ FreshLocals
    /\ NotFromCli

sd_locals == << bytes_by_lang, top_level_names, frameworks, infra, project_structures >>
m_locals == << m_bytes_by_lang, m_frameworks, m_infra, all_structures >>
call == << fs, mode, roots, run, first, changes, cli, stdout, stderr, exit_code >>

\* scan_directory / scan_directories is entered.
Start ==
    /\ pc = "start"
    /\ pc' = IF mode = "multi" /\ roots = <<>> THEN "build" ELSE "walk"
    /\ UNCHANGED << call, walks, seen, i, sd_locals, sd_result, m_locals, result >>

\* scan_directory: the walk of the root.
Walk ==
    /\ pc = "walk"
    /\ LET st == ScanDirectoryWalk(fs, roots[i])
       IN  /\ bytes_by_lang' = st.bytes_by_lang
           /\ top_level_names' = st.top_level_names
    /\ walks' = Append(walks, roots[i])
    /\ seen' = Append(seen, fs)
    /\ pc' = "hidden"
    /\ UNCHANGED << call, i, frameworks, infra, project_structures, sd_result, m_locals,
                    result >>

\* scan_directory: check_hidden_indicators(root, &mut top_level_names).
CheckHidden ==
    /\ pc = "hidden"
    /\ top_level_names' = check_hidden_indicators(fs, roots[i], top_level_names)
    /\ pc' = "indicators"
    /\ UNCHANGED << call, walks, seen, i, bytes_by_lang, frameworks, infra, project_structures,
                    sd_result, m_locals, result >>

\* scan_directory: detect_file_indicators(&top_level_names, &mut frameworks, &mut infra).
DetectFileIndicators ==
    /\ pc = "indicators"
    /\ LET d == detect_file_indicators(top_level_names, frameworks, infra)
       IN  /\ frameworks' = d.frameworks
           /\ infra' = d.infra
    /\ pc' = "structures"
    /\ UNCHANGED << call, walks, seen, i, bytes_by_lang, top_level_names, project_structures,
                    sd_result, m_locals, result >>

\* scan_directory: let project_structures = detect_structures(&top_level_names).
DetectStructures ==
    /\ pc = "structures"
    /\ project_structures' = detect_structures(top_level_names)
    /\ pc' = "deps"
    /\ UNCHANGED << call, walks, seen, i, bytes_by_lang, top_level_names, frameworks, infra,
                    sd_result, m_locals, result >>

\* scan_directory: dependencies::detect_all(root, &mut frameworks).
DetectAll ==
    /\ pc = "deps"
    /\ frameworks' = detect_all(fs, roots[i], frameworks)
    /\ pc' = "return"
    /\ UNCHANGED << call, walks, seen, i, bytes_by_lang, top_level_names, infra, project_structures,
                    sd_result, m_locals, result >>

\* scan_directory returns its ScanResult; its locals are dropped.
Return ==
    /\ pc = "return"
    /\ \E iter \in Orders(DOMAIN bytes_by_lang) :
         LET r == ScanResult(build_language_list(bytes_by_lang, iter),
                             into_sorted_entries(frameworks),
                             project_structures,
                             into_sorted_entries(infra))
         IN  IF mode = "single"
             THEN /\ result' = r
                  /\ sd_result' = sd_result
                  /\ pc' = "done"
             ELSE /\ sd_result' = r
                  /\ result' = result
                  /\ pc' = "merge"
    /\ bytes_by_lang' = EmptyMap
    /\ top_level_names' = <<>>
    /\ frameworks' = EmptyMap
    /\ infra' = EmptyMap
    /\ project_structures' = <<>>
    /\ UNCHANGED << call, walks, seen, i, m_locals >>

\* The merge of one root's entries that keeps nothing of the roots before it.
InsertEntriesReplacing(entries, map) ==
    [n \in {entries[k].name : k \in 1..Len(entries)} |->
        (CHOOSE e \in Range(entries) : e.name = n).category]

\* for entry in entries { map.insert(entry.name, entry.category) }
RECURSIVE InsertEntries(_, _)
InsertEntries(entries, map) ==
    IF entries = <<>> THEN map
    ELSE InsertEntries(Tail(entries),
                       Insert(map, Head(entries).name, Head(entries).category))

\* scan_directories, first loop: the result of one root is merged.
Merge ==
    /\ pc = "merge"
    /\ m_frameworks' = InsertEntries(sd_result.frameworks, m_frameworks)
    /\ m_infra' = InsertEntries(sd_result.infrastructure_signals, m_infra)
    /\ all_structures' = all_structures \cup Range(sd_result.project_structures)
    /\ sd_result' = EmptyResult
    /\ IF i < Len(roots)
       THEN i' = i + 1 /\ pc' = "walk"
       ELSE i' = 1 /\ pc' = "combined"
    /\ UNCHANGED << call, walks, seen, sd_locals, m_bytes_by_lang, result >>

\* scan_directories, second loop: the walk of one root for the byte counts.
CombinedLanguageWalk ==
    /\ pc = "combined"
    /\ m_bytes_by_lang' = CombinedWalk(fs, roots[i], m_bytes_by_lang)
    /\ walks' = Append(walks, roots[i])
    /\ seen' = Append(seen, fs)
    /\ IF i < Len(roots)
       THEN i' = i + 1 /\ pc' = "combined"
       ELSE i' = 1 /\ pc' = "build"
    /\ UNCHANGED << call, sd_locals, sd_result, m_frameworks, m_infra, all_structures,
                    result >>

\* scan_directories returns its ScanResult.
BuildResult ==
    /\ pc = "build"
    /\ \E iter \in Orders(DOMAIN m_bytes_by_lang) :
         result' = ScanResult(build_language_list(m_bytes_by_lang, iter),
                              into_sorted_entries(m_frameworks),
                              SortedSeq(all_structures, STRUCTURE_TAG_ORDER),
                              into_sorted_entries(m_infra))
    /\ pc' = "done"
    /\ UNCHANGED << call, walks, seen, i, sd_locals, sd_result, m_locals >>

\* The same call is executed a second time on the unmodified tree.
Rerun ==
    /\ pc = "done"
    /\ run = 1
    /\ run' = 2
    /\ first' = result
    /\ pc' = "start"
    /\ i' = 1
    /\ bytes_by_lang' = EmptyMap
    /\ top_level_names' = <<>>
    /\ frameworks' = EmptyMap
    /\ infra' = EmptyMap
    /\ project_structures' = <<>>
    /\ sd_result' = EmptyResult
    /\ m_bytes_by_lang' = EmptyMap
    /\ m_frameworks' = EmptyMap
    /\ m_infra' = EmptyMap
    /\ all_structures' = {}
    /\ result' = EmptyResult
    /\ walks' = <<>>
    /\ seen' = <<>>
    /\ UNCHANGED << fs, mode, roots, changes, cli, stdout, stderr, exit_code >>

Next ==
    \/ Start
    \/ Walk
    \/ CheckHidden
    \/ DetectFileIndicators
    \/ DetectStructures
    \/ DetectAll
    \/ Return
    \/ Merge
    \/ CombinedLanguageWalk
    \/ BuildResult
    \/ Rerun

Spec == Init /\ [][Next]_vars

\* ------------------------------------------- build_language_list on its own
\* The byte-count maps build_language_list is applied to.
LANGUAGES == {LANGUAGE_NAME_ORDER[k] : k \in 1..NumLangs}

ByteMaps == UNION {[D -> 0..MaxBytes] : D \in SUBSET LANGUAGES}

InitLang ==
    /\ fs = {}
    /\ mode = "build_language_list"
    /\ roots = <<>>
    /\ pc = "build_language_list"
    /\ run = 1
    /\ changes = 0
    /\ first = EmptyResult
    /\ i = 1
    /\ bytes_by_lang \in ByteMaps
    /\ top_level_names = <<>>
    /\ frameworks = EmptyMap
    /\ infra = EmptyMap
    /\ project_structures = <<>>
    /\ sd_result = EmptyResult
    /\ m_bytes_by_lang = EmptyMap
    /\ m_frameworks = EmptyMap
    /\ m_infra = EmptyMap
    /\ all_structures = {}
    /\ result = EmptyResult
    /\ walks = <<>>
    /\ seen = <<>>
    /\ NotFromCli

\* build_language_list(&bytes_by_lang) is called; the list is kept in result.languages.
ApplyBuildLanguageList ==
    /\ pc = "build_language_list"
    /\ \E iter \in Orders(DOMAIN bytes_by_lang) :
         result' = ScanResult(build_language_list(bytes_by_lang, iter), <<>>, <<>>, <<>>)
    /\ pc' = "built"
    /\ UNCHANGED << call, walks, seen, i, sd_locals, sd_result, m_locals >>

NextLang == ApplyBuildLanguageList

SpecLang == InitLang /\ [][NextLang]_vars

\* --------------------------------------------------------- detect_npm on its own
NPM_KEYS == {"react", "react-native", "typescript", "left-pad"}

\* package.json: unreadable, no JSON, or JSON with any keys in its two objects.
NpmContents ==
    {ReadError, NoContent} \cup {Json(d, v) : d \in SUBSET NPM_KEYS, v \in SUBSET NPM_KEYS}

InitNpm ==
    /\ fs \in {{}} \cup {{File("A", <<>>, "package.json", MaxSize, FALSE, c)} : c \in NpmContents}
    /\ mode = "detect_npm"
    /\ roots = <<"A">>
    /\ pc = "detect_npm"
    /\ run = 1
    /\ changes = 0
    /\ first = EmptyResult
    /\ FreshLocals
    /\ NotFromCli

\* detect_npm(dir, &mut frameworks) is called on an empty map, as its tests do.
ApplyDetectNpm ==
    /\ pc = "detect_npm"
    /\ frameworks' = detect_npm(fs, roots[1], frameworks)
    /\ pc' = "detected"
    /\ UNCHANGED << call, walks, seen, i, bytes_by_lang, top_level_names, infra, project_structures,
                    sd_result, m_locals, result >>

NextNpm == ApplyDetectNpm

SpecNpm == InitNpm /\ [][NextNpm]_vars

\* -------------------------------------------------------------- properties
Abs(x) == IF x < 0 THEN 0 - x ELSE x

RECURSIVE PercentageSum(_)
PercentageSum(languages) ==
    IF languages = <<>> THEN 0
    ELSE Head(languages).percentage + PercentageSum(Tail(languages))

TotalBytes(map) == SumOver(map, DOMAIN map)

\* C1, as stated: whenever the total of a byte-count map is greater than 0, the
\* percentages build_language_list reports sum to a value in [99.9, 100.1].
C1_SumWithinOneTenth ==
    (pc = "built" /\ TotalBytes(bytes_by_lang) > 0)
        => PercentageSum(result.languages) \in 999..1001

\* C1, amended: whenever the total is greater than 0, the sum of the reported
\* percentages differs from 100 by at most 0.05 for each reported language, and so
\* lies in [99.9, 100.1] when at most three languages are reported.
C1_SumWithinHalfTenthPerLanguage ==
    (pc = "built" /\ TotalBytes(bytes_by_lang) > 0)
        => /\ 2 * Abs(PercentageSum(result.languages) - 1000) <= Len(result.languages)
           /\ Len(result.languages) <= 3
                  => PercentageSum(result.languages) \in 999..1001

\* C1, witness: four languages whose percentages sum to 100.2.
C1_Witness ==
    /\ pc = "built"
    /\ Len(result.languages) = 4
    /\ PercentageSum(result.languages) = 1002

\* C4: the list build_language_list returns is descending by percentage, and two
\* entries with the same percentage stand in ascending order of their names.
C4_DescendingThenNameAscending ==
    pc = "built"
        => \A j, k \in 1..Len(result.languages) :
               j < k =>
                   \/ result.languages[j].percentage > result.languages[k].percentage
                   \/ /\ result.languages[j].percentage = result.languages[k].percentage
                      /\ Rank(LANGUAGE_NAME_ORDER, result.languages[j].name)
                             < Rank(LANGUAGE_NAME_ORDER, result.languages[k].name)

\* C5: when the total of the byte counts is 0 (an empty map, or only languages
\* with 0 bytes) build_language_list returns the empty list and divides nothing by
\* the total, so no percentage is NaN; when the total is greater than 0 the list is
\* not empty.
C5_ZeroTotalGivesEmptyList ==
    pc = "built"
        => /\ TotalBytes(bytes_by_lang) = 0 => result.languages = <<>>
           /\ TotalBytes(bytes_by_lang) > 0 => result.languages # <<>>
           /\ \A k \in 1..Len(result.languages) : result.languages[k].percentage # NaN

\* C5, witness: a map that records languages, all with 0 bytes, gave the empty list.
C5_Witness ==
    /\ pc = "built"
    /\ DOMAIN bytes_by_lang # {}
    /\ TotalBytes(bytes_by_lang) = 0
    /\ result.languages = <<>>

\* The sum of two byte-count maps, language by language.
AddMaps(a, b) ==
    [l \in DOMAIN a \cup DOMAIN b |->
        (IF l \in DOMAIN a THEN a[l] ELSE 0) + (IF l \in DOMAIN b THEN b[l] ELSE 0)]

\* The byte counts that the single-root scans of roots[1..k] accumulate, summed.
RECURSIVE SummedRootBytes(_)
SummedRootBytes(k) ==
    IF k = 0 THEN EmptyMap
    ELSE AddMaps(SummedRootBytes(k - 1), ScanDirectoryWalk(fs, roots[k]).bytes_by_lang)

\* C2: the language list scan_directories reports is build_language_list applied
\* to the per-language sum, over the roots, of the byte counts a single-root scan
\* of each root accumulates; no language has two entries.
C2_MergeIsByteExact ==
    (mode = "multi" /\ pc = "done")
        => /\ result.languages \in
                  {build_language_list(SummedRootBytes(Len(roots)), iter) :
                       iter \in Orders(DOMAIN SummedRootBytes(Len(roots)))}
           /\ \A j, k \in 1..Len(result.languages) :
                  result.languages[j].name = result.languages[k].name => j = k

\* C2, witness: two different roots both hold bytes of one language, and the
\* merged list is the single entry of that language at 100.0.
C2_Witness ==
    /\ mode = "multi"
    /\ pc = "done"
    /\ Len(roots) = 2
    /\ roots[1] # roots[2]
    /\ \E l \in DOMAIN ScanDirectoryWalk(fs, roots[1]).bytes_by_lang
                \cap DOMAIN ScanDirectoryWalk(fs, roots[2]).bytes_by_lang :
           /\ ScanDirectoryWalk(fs, roots[1]).bytes_by_lang[l] = 2
           /\ ScanDirectoryWalk(fs, roots[2]).bytes_by_lang[l] = 1
           /\ result.languages = <<[name |-> l, category |-> "language", percentage |-> 1000]>>

\* C3: the second execution of a call on the unmodified tree returns the
\* ScanResult the first execution returned, every list in the same order.
C3_Idempotent ==
    (run = 2 /\ pc = "done") => result = first

\* The extension of a file name ends it; whether it is in the binary table.
HasBinaryExtension(name) ==
    /\ DotParts(name) # <<>>
    /\ DotParts(name)[Len(DotParts(name))] \in BINARY_EXTENSIONS

\* The tree without its files of binary extension.
WithoutBinaries(tree) == {e \in tree : e.isdir \/ ~HasBinaryExtension(e.name)}

RECURSIVE CombinedBytes(_, _)
CombinedBytes(tree, k) ==
    IF k = 0 THEN EmptyMap ELSE CombinedWalk(tree, roots[k], CombinedBytes(tree, k - 1))

\* The languages of the files of non-binary extension below the given roots.
LanguagesOfSources(rs) ==
    {extension_to_language(DotParts(e.name)[Len(DotParts(e.name))]) :
        e \in {x \in fs : /\ x.root \in rs
                          /\ ~x.isdir
                          /\ DotParts(x.name) # <<>>
                          /\ ~HasBinaryExtension(x.name)}}

\* C6: in scan_directory and in scan_directories the files of binary extension
\* add nothing to any byte count (the counts are those of the tree without them)
\* and every reported language is the language of a file of non-binary extension.
C6_BinaryFilesNeverCounted ==
    /\ pc \in {"hidden", "indicators", "structures", "deps", "return"}
           => bytes_by_lang = ScanDirectoryWalk(WithoutBinaries(fs), roots[i]).bytes_by_lang
    /\ pc = "build"
           => m_bytes_by_lang = CombinedBytes(WithoutBinaries(fs), Len(roots))
    /\ pc = "done"
           => \A k \in 1..Len(result.languages) :
                  result.languages[k].name \in LanguagesOfSources(Range(roots))

\* C6, witness: a scanned root holds a non-empty file of binary extension that
\* the walker yields, and the report lists a language.
C6_Witness ==
    /\ pc = "done"
    /\ result.languages # <<>>
    /\ \E e \in fs : /\ e.root \in Range(roots)
                     /\ ~e.isdir
                     /\ e.parents = <<>>
                     /\ HasBinaryExtension(e.name)
                     /\ e.size > 0

\* The names the indicator table and the structure rules look for.
IndicatorNames == {FRAMEWORK_INDICATORS[k][1] : k \in 1..Len(FRAMEWORK_INDICATORS)}

StructureNames == {"src", "packages", "libs", "setup.py", "pyproject.toml", "package.json",
                   "Makefile"}

\* The root of a single scan holds exactly one entry, a file with a recognized
\* language extension.
OneSourceFile(e) ==
    /\ Leaves(fs, roots[1]) = {e}
    /\ ~e.isdir
    /\ e.parents = <<>>
    /\ DotParts(e.name) # <<>>
    /\ extension_to_language(DotParts(e.name)[Len(DotParts(e.name))]) # NoLanguage

OnlyLanguage(e) ==
    ScanResult(<<[name |-> extension_to_language(DotParts(e.name)[Len(DotParts(e.name))]),
                  category |-> "language", percentage |-> 1000]>>, <<>>, <<>>, <<>>)

\* C7, as stated: a directory that holds exactly one file, with a recognized
\* language extension, scans to that language at 100.0 and three empty fields.
C7_OneSourceFile ==
    (mode = "single" /\ pc = "done")
        => \A e \in fs : OneSourceFile(e) => result = OnlyLanguage(e)

\* C7, amended: a directory whose only entry is one file that is not empty, that
\* the walker yields (not hidden, under no ignore rule), that has a recognized
\* language extension and whose name is neither an indicator nor named by a
\* structure rule scans to that language at 100.0 and three empty fields.
C7_OneYieldedNonEmptyPlainSourceFile ==
    (mode = "single" /\ pc = "done")
        => \A e \in fs :
               ( /\ OneSourceFile(e)
                 /\ e.size > 0
                 /\ ~IsHidden(e.name)
                 /\ ~e.ignored
                 /\ e.name \notin IndicatorNames
                 /\ e.name \notin StructureNames )
                   => result = OnlyLanguage(e)

\* C7, witness: the scan of a root that holds only a non-empty main.py is done.
C7_Witness ==
    /\ mode = "single"
    /\ pc = "done"
    /\ \E e \in fs : /\ OneSourceFile(e)
                     /\ e.name = "main.py"
                     /\ e.size > 0
                     /\ ~e.ignored
                     /\ result = OnlyLanguage(e)

\* C8: scan_directory on an empty directory returns four empty fields.
C8_EmptyDirectory ==
    (mode = "single" /\ pc = "done" /\ Leaves(fs, roots[1]) = {}) => result = EmptyResult

\* C8, witness: the scan of an empty root is done.
C8_Witness ==
    /\ mode = "single"
    /\ pc = "done"
    /\ Leaves(fs, roots[1]) = {}
    /\ result = EmptyResult

\* The keys of the dependencies and devDependencies objects of root's package.json,
\* none when the file is missing, unreadable or no JSON.
PackageJsonKeys(root) ==
    UNION {e.content.deps \cup e.content.dev :
              e \in {x \in Leaves(fs, root) : /\ RelPath(x) = <<"package.json">>
                                               /\ ~x.isdir
                                               /\ x.content.readable
                                               /\ x.content.parses}}

\* C9: detect_npm records the name and category of a table entry if and only if
\* the entry's key is, exactly, a key of dependencies or of devDependencies.
C9_NpmExactKeys ==
    pc = "detected"
        => /\ \A k \in 1..Len(NPM_MAP) :
                  NPM_MAP[k][1] \in PackageJsonKeys(roots[1])
                      <=> /\ NPM_MAP[k][2] \in DOMAIN frameworks
                          /\ frameworks[NPM_MAP[k][2]] = NPM_MAP[k][3]
           /\ DOMAIN frameworks \subseteq {NPM_MAP[k][2] : k \in 1..Len(NPM_MAP)}

\* C9, witness: react-native is listed without react; React Native is recorded
\* and React is not.
C9_Witness ==
    /\ pc = "detected"
    /\ "react-native" \in PackageJsonKeys(roots[1])
    /\ "react" \notin PackageJsonKeys(roots[1])
    /\ "React Native" \in DOMAIN frameworks
    /\ "React" \notin DOMAIN frameworks

Count(seq, x) == Cardinality({k \in 1..Len(seq) : seq[k] = x})

\* C10: when indicator detection starts, top_level_names holds each hidden
\* indicator whose path exists exactly once and no other hidden indicator; and a
\* root in which .github/workflows exists is reported with GitHub Actions among
\* the infrastructure signals of scan_directory.
C10_HiddenIndicatorsRecovered ==
    /\ pc = "indicators"
           => \A k \in 1..Len(HIDDEN_INDICATORS) :
                  Count(top_level_names, HIDDEN_INDICATORS[k][1])
                      = IF PathExists(fs, roots[i], HIDDEN_INDICATORS[k][2]) THEN 1 ELSE 0
    /\ (mode = "single" /\ pc = "done" /\ PathExists(fs, roots[1], <<".github", "workflows">>))
           => \E k \in 1..Len(result.infrastructure_signals) :
                  result.infrastructure_signals[k]
                      = [name |-> "GitHub Actions", category |-> "infrastructure"]

\* C10, witness: the scan of a root with .github/workflows is done and reports
\* GitHub Actions.
C10_Witness ==
    /\ mode = "single"
    /\ pc = "done"
    /\ PathExists(fs, roots[1], <<".github", "workflows">>)
    /\ result.infrastructure_signals
           = <<[name |-> "GitHub Actions", category |-> "infrastructure"]>>

\* ------------------------------------------- detect_structures on its own
\* Longest list of top-level names detect_structures is applied to.
MaxNames == 3

\* The names detect_structures is applied to: those its rules look for, and one
\* that no rule looks for.
STRUCTURE_INPUT_NAMES ==
    {"src", "packages", "libs", "setup.py", "pyproject.toml", "package.json", "Makefile",
     "README.md"}

InitStructures ==
    /\ fs = {}
    /\ mode = "detect_structures"
    /\ roots = <<>>
    /\ pc = "detect_structures"
    /\ run = 1
    /\ changes = 0
    /\ first = EmptyResult
    /\ i = 1
    /\ bytes_by_lang = EmptyMap
    /\ top_level_names \in SeqsUpTo(STRUCTURE_INPUT_NAMES, MaxNames)
    /\ frameworks = EmptyMap
    /\ infra = EmptyMap
    /\ project_structures = <<>>
    /\ sd_result = EmptyResult
    /\ m_bytes_by_lang = EmptyMap
    /\ m_frameworks = EmptyMap
    /\ m_infra = EmptyMap
    /\ all_structures = {}
    /\ result = EmptyResult
    /\ walks = <<>>
    /\ seen = <<>>
    /\ NotFromCli

\* detect_structures(&top_level_names) is called.
ApplyDetectStructures ==
    /\ pc = "detect_structures"
    /\ project_structures' = detect_structures(top_level_names)
    /\ pc' = "structures_detected"
    /\ UNCHANGED << call, walks, seen, i, bytes_by_lang, top_level_names, frameworks, infra, sd_result,
                    m_locals, result >>

NextStructures == ApplyDetectStructures

SpecStructures == InitStructures /\ [][NextStructures]_vars

\* The rule of a structure tag, on a set of names.
StructureRule(tag, names) ==
    CASE tag = "src_layout" -> "src" \in names
      [] tag = "monorepo" -> "packages" \in names \/ "libs" \in names
      [] tag = "python_package" -> "setup.py" \in names \/ "pyproject.toml" \in names
      [] tag = "node_project" -> "package.json" \in names
      [] tag = "makefile" -> "Makefile" \in names

StrictlyAscending(seq, order) ==
    \A j, k \in 1..Len(seq) : j < k => Rank(order, seq[j]) < Rank(order, seq[k])

\* C11: the list detect_structures returns holds each of the five tags if and
\* only if the tag's rule holds on the set of the names (whatever their order and
\* however often a name is listed, and whatever other rules hold), holds nothing
\* else, and is ascending with no tag twice.
C11_StructuresAreTheRulesSorted ==
    pc = "structures_detected"
        => /\ Range(project_structures) \subseteq Range(STRUCTURE_TAG_ORDER)
           /\ \A tag \in Range(STRUCTURE_TAG_ORDER) :
                  tag \in Range(project_structures)
                      <=> StructureRule(tag, Range(top_level_names))
           /\ StrictlyAscending(project_structures, STRUCTURE_TAG_ORDER)

\* C11, witness: the names are src and Makefile, src first, and the list is
\* [makefile, src_layout].
C11_Witness ==
    /\ pc = "structures_detected"
    /\ top_level_names = <<"src", "Makefile">>
    /\ project_structures = <<"makefile", "src_layout">>

\* -------------------------------------- detect_file_indicators on its own
\* Longest list of top-level names detect_file_indicators is applied to.
MaxIndicators == 2

\* The names detect_file_indicators is applied to: every indicator of the table,
\* and one name that is no indicator.
INDICATOR_INPUT_NAMES == IndicatorNames \cup {"README.md"}

InitIndicators ==
    /\ fs = {}
    /\ mode = "detect_file_indicators"
    /\ roots = <<>>
    /\ pc = "detect_file_indicators"
    /\ run = 1
    /\ changes = 0
    /\ first = EmptyResult
    /\ i = 1
    /\ bytes_by_lang = EmptyMap
    /\ top_level_names \in SeqsUpTo(INDICATOR_INPUT_NAMES, MaxIndicators)
    /\ frameworks = EmptyMap
    /\ infra = EmptyMap
    /\ project_structures = <<>>
    /\ sd_result = EmptyResult
    /\ m_bytes_by_lang = EmptyMap
    /\ m_frameworks = EmptyMap
    /\ m_infra = EmptyMap
    /\ all_structures = {}
    /\ result = EmptyResult
    /\ walks = <<>>
    /\ seen = <<>>
    /\ NotFromCli

\* detect_file_indicators(&top_level_names, &mut frameworks, &mut infra) is called
\* on two empty maps, as scan_directory calls it.
ApplyDetectFileIndicators ==
    /\ pc = "detect_file_indicators"
    /\ LET d == detect_file_indicators(top_level_names, frameworks, infra)
       IN  /\ frameworks' = d.frameworks
           /\ infra' = d.infra
    /\ pc' = "indicators_detected"
    /\ UNCHANGED << call, walks, seen, i, bytes_by_lang, top_level_names, project_structures, sd_result,
                    m_locals, result >>

NextIndicators == ApplyDetectFileIndicators

SpecIndicators == InitIndicators /\ [][NextIndicators]_vars

\* The entries of the indicator table whose indicator is among the names.
PresentIndicators(names) ==
    {k \in 1..Len(FRAMEWORK_INDICATORS) : FRAMEWORK_INDICATORS[k][1] \in Range(names)}

\* C12: every table entry whose indicator is among the names has its display
\* name, with its category, in the infrastructure map when the category is
\* infrastructure and in the generic map otherwise, and not in the other map;
\* the maps hold no name of an absent entry; the generic map holds no category
\* infrastructure and the infrastructure map holds no other category.
C12_IndicatorsRoutedByCategory ==
    pc = "indicators_detected"
        => /\ \A k \in PresentIndicators(top_level_names) :
                  LET t == FRAMEWORK_INDICATORS[k]
                  IN  IF t[3] = "infrastructure"
                      THEN /\ t[2] \in DOMAIN infra
                           /\ infra[t[2]] = t[3]
                           /\ t[2] \notin DOMAIN frameworks
                      ELSE /\ t[2] \in DOMAIN frameworks
                           /\ frameworks[t[2]] = t[3]
                           /\ t[2] \notin DOMAIN infra
           /\ DOMAIN frameworks \cup DOMAIN infra
                  = {FRAMEWORK_INDICATORS[k][2] : k \in PresentIndicators(top_level_names)}
           /\ \A n \in DOMAIN frameworks : frameworks[n] # "infrastructure"
           /\ \A n \in DOMAIN infra : infra[n] = "infrastructure"

\* C12, witness: Dockerfile and tsconfig.json are among the names; Docker is in
\* the infrastructure map and TypeScript, a language, in the generic map.
C12_Witness ==
    /\ pc = "indicators_detected"
    /\ top_level_names = <<"Dockerfile", "tsconfig.json">>
    /\ infra = Insert(EmptyMap, "Docker", "infrastructure")
    /\ frameworks = Insert(EmptyMap, "TypeScript", "language")

\* --------------------------------------------- scans of trees with manifests
\* A file of plain text: the words the manifest parsers search.
Text(words) ==
    [readable |-> TRUE, parses |-> FALSE, deps |-> {}, dev |-> {}, text |-> words]

\* The leaves a tree with indicators and manifests below root r is built from:
\* indicators, structure names and manifests at the first level and below it,
\* manifests that cannot be read or parsed, and manifests that name dependencies.
SignalCandidates(r) ==
    { File(r, <<>>, "Dockerfile", 1, FALSE, NoContent),
      File(r, <<"sub">>, "Dockerfile", 1, FALSE, NoContent),
      File(r, <<>>, "webpack.config.js", 1, FALSE, NoContent),
      File(r, <<>>, "Makefile", 1, FALSE, NoContent),
      Dir(r, <<>>, "src"),
      Dir(r, <<"sub">>, "src"),
      Dir(r, <<".github">>, "workflows"),
      Dir(r, <<"sub", ".github">>, "workflows"),
      File(r, <<"sub">>, "package.json", 1, FALSE, Json({"react"}, {})),
      File(r, <<>>, "pyproject.toml", 1, FALSE, Text({"Django>=4.2"})),
      File(r, <<>>, "Cargo.toml", 1, FALSE, Text({"tokio"})),
      File(r, <<>>, "Gemfile", 1, FALSE, Text({"gem 'rails'"})),
      File(r, <<>>, "go.mod", 1, FALSE, Text({"github.com/gin-gonic/gin"})) }
    \cup {File(r, <<>>, "package.json", 1, FALSE, c) :
              c \in {NoContent, ReadError, Json({"webpack"}, {}), Json({}, {"react"})}}
    \cup {File(r, <<>>, "requirements.txt", 1, FALSE, c) :
              c \in {ReadError, Text({"flask==2.3.0"})}}
    \cup {File(r, <<>>, "composer.json", 1, FALSE, c) :
              c \in {NoContent, Json({"laravel/framework"}, {})}}

SignalFileSystems ==
    {t \in SubsetsUpTo(UNION {SignalCandidates(r) : r \in ROOT_NAMES}, MaxFiles) :
        WellFormed(t)}

InitSignals ==
    /\ fs \in SignalFileSystems
    /\ mode \in {"single", "multi"}
    /\ roots \in IF mode = "single" THEN {<<r>> : r \in ROOT_NAMES}
                 ELSE SeqsUpTo(ROOT_NAMES, MaxRoots)
    /\ pc = "start"
    /\ run = 1
    /\ changes = 0
    /\ first = EmptyResult
    /\ FreshLocals
    /\ NotFromCli

SpecSignals == InitSignals /\ [][Next]_vars

\* top_level_names as scan_directory hands it to the detectors.
TopLevelNames(tree, r) ==
    check_hidden_indicators(tree, r, ScanDirectoryWalk(tree, r).top_level_names)

\* What the file indicators write to an empty generic map, and what the
\* dependency parsers write to one.
IndicatorWrites(tree, r) ==
    detect_file_indicators(TopLevelNames(tree, r), EmptyMap, EmptyMap).frameworks

ParserWrites(tree, r) == detect_all(tree, r, EmptyMap)

\* The category a list of SignalEntry gives a name.
CategoryIn(entries, name) ==
    {entries[k].category : k \in {j \in 1..Len(entries) : entries[j].name = name}}

EntryNames(entries) == {entries[k].name : k \in 1..Len(entries)}

\* C13: in a scan_directory call nothing is in the generic map before the file
\* indicators run, only what they write is in it when the dependency parsers
\* start, and the parsers write after them: the call reports every name either
\* writes, a name a parser writes with the parser's category (also when a file
\* indicator writes it too) and any other name with the indicator's category.
C13_IndicatorsThenParsersLastWins ==
    /\ pc \in {"walk", "hidden", "indicators"} => frameworks = EmptyMap
    /\ pc \in {"structures", "deps"} => frameworks = IndicatorWrites(fs, roots[i])
    /\ (mode = "single" /\ pc = "done")
           => /\ EntryNames(result.frameworks)
                     = DOMAIN IndicatorWrites(fs, roots[1]) \cup DOMAIN ParserWrites(fs, roots[1])
              /\ \A n \in DOMAIN ParserWrites(fs, roots[1]) :
                     CategoryIn(result.frameworks, n) = {ParserWrites(fs, roots[1])[n]}
              /\ \A n \in DOMAIN IndicatorWrites(fs, roots[1])
                            \ DOMAIN ParserWrites(fs, roots[1]) :
                     CategoryIn(result.frameworks, n) = {IndicatorWrites(fs, roots[1])[n]}

\* C13, witness: webpack.config.js is at the first level and package.json lists
\* webpack, so both detectors write Webpack; the call reports it once.
C13_Witness ==
    /\ mode = "single"
    /\ pc = "done"
    /\ "Webpack" \in DOMAIN IndicatorWrites(fs, roots[1])
    /\ "Webpack" \in DOMAIN ParserWrites(fs, roots[1])
    /\ result.frameworks = <<[name |-> "Webpack", category |-> "tool"]>>

\* The two signal maps and the tags of a single-root scan of root r.
RootFrameworks(tree, r) == detect_all(tree, r, IndicatorWrites(tree, r))

RootInfra(tree, r) ==
    detect_file_indicators(TopLevelNames(tree, r), EmptyMap, EmptyMap).infra

RootStructures(tree, r) == Range(detect_structures(TopLevelNames(tree, r)))

\* entries holds the names of the given per-root maps, each with the category
\* of the last root that has it.
UnionLastRootWins(entries, maps) ==
    /\ EntryNames(entries) = UNION {DOMAIN maps[k] : k \in 1..Len(maps)}
    /\ \A k \in 1..Len(maps) :
           \A n \in DOMAIN maps[k] :
               (\A j \in (k + 1)..Len(maps) : n \notin DOMAIN maps[j])
                   => CategoryIn(entries, n) = {maps[k][n]}
    /\ \A j, k \in 1..Len(entries) : entries[j].name = entries[k].name => j = k

\* C14: scan_directories reports in frameworks, and in infrastructure_signals,
\* exactly the names the single-root scan of at least one root reports there,
\* each once and with the category of the last root of the list that reports it;
\* project_structures is the ascending, duplicate-free list of the tags of all
\* the roots.
C14_SignalsAndStructuresAreUnions ==
    (mode = "multi" /\ pc = "done")
        => /\ UnionLastRootWins(result.frameworks,
                                [k \in 1..Len(roots) |-> RootFrameworks(fs, roots[k])])
           /\ UnionLastRootWins(result.infrastructure_signals,
                                [k \in 1..Len(roots) |-> RootInfra(fs, roots[k])])
           /\ Range(result.project_structures)
                  = UNION {RootStructures(fs, roots[k]) : k \in 1..Len(roots)}
           /\ StrictlyAscending(result.project_structures, STRUCTURE_TAG_ORDER)

\* C14, witness: of two different roots the first has package.json listing
\* webpack and the second webpack.config.js; Webpack is reported once, and the
\* tag of the first root is reported.
C14_Witness ==
    /\ mode = "multi"
    /\ pc = "done"
    /\ Len(roots) = 2
    /\ roots[1] # roots[2]
    /\ "Webpack" \in DOMAIN RootFrameworks(fs, roots[1])
    /\ "Webpack" \in DOMAIN RootFrameworks(fs, roots[2])
    /\ RootStructures(fs, roots[2]) = {}
    /\ result.frameworks = <<[name |-> "Webpack", category |-> "tool"]>>
    /\ result.project_structures = <<"node_project">>

\* The manifests detect_all's parsers read, and those read as JSON.
MANIFESTS ==
    {"package.json", "requirements.txt", "pyproject.toml", "Cargo.toml", "Gemfile", "go.mod",
     "composer.json"}

JSON_MANIFESTS == {"package.json", "composer.json"}

\* The manifest is missing, unreadable, or (where JSON is expected) no JSON.
BadManifest(tree, r, name) ==
    \/ ~read_to_string(tree, r, name).readable
    \/ name \in JSON_MANIFESTS /\ ~read_to_string(tree, r, name).parses

\* The parser of a manifest, applied to a map.
ParserOf(name, tree, r, map) ==
    CASE name = "package.json" -> detect_npm(tree, r, map)
      [] name = "requirements.txt" -> detect_python(tree, r, map)
      [] name = "pyproject.toml" -> detect_pyproject(tree, r, map)
      [] name = "Cargo.toml" -> detect_rust(tree, r, map)
      [] name = "Gemfile" -> detect_ruby(tree, r, map)
      [] name = "go.mod" -> detect_go(tree, r, map)
      [] name = "composer.json" -> detect_php(tree, r, map)

\* C15: a parser whose manifest is missing, unreadable or no JSON returns the
\* signal map as it got it; the scan still returns, and it reports what the file
\* indicators and the parsers of the other manifests write, so the signals of
\* the bad manifest's ecosystem are all that is lost.
C15_BadManifestLosesOnlyItsSignals ==
    /\ pc = "deps"
           => \A name \in MANIFESTS :
                  BadManifest(fs, roots[i], name)
                      => ParserOf(name, fs, roots[i], frameworks) = frameworks
    /\ (mode = "single" /\ pc = "done")
           => EntryNames(result.frameworks)
                  = DOMAIN IndicatorWrites(fs, roots[1])
                    \cup UNION {DOMAIN ParserOf(name, fs, roots[1], EmptyMap) :
                                   name \in {m \in MANIFESTS : ~BadManifest(fs, roots[1], m)}}

\* C15, witness: package.json is there and is no JSON, requirements.txt names
\* flask; the scan is done and reports Flask, and the tag of package.json.
C15_Witness ==
    /\ mode = "single"
    /\ pc = "done"
    /\ read_to_string(fs, roots[1], "package.json").readable
    /\ ~read_to_string(fs, roots[1], "package.json").parses
    /\ result.frameworks = <<[name |-> "Flask", category |-> "framework"]>>
    /\ result.project_structures = <<"node_project">>

\* The names the file indicators and the parsers other than detect_pyproject
\* write for root r.
WritesOfOthers(tree, r) ==
    DOMAIN IndicatorWrites(tree, r)
    \cup UNION {DOMAIN ParserOf(name, tree, r, EmptyMap) : name \in MANIFESTS \ {"pyproject.toml"}}

\* C16: when requirements.txt is present in the root (and can be read), a name that only
\* detect_pyproject writes (its keyword occurs in pyproject.toml alone) is not
\* reported.
C16_PyprojectOnlyWhenRequirementsAbsent ==
    ( /\ mode = "single"
      /\ pc = "done"
      /\ read_to_string(fs, roots[1], "requirements.txt").readable )
        => \A n \in DOMAIN detect_pyproject(fs, roots[1], EmptyMap)
                      \ WritesOfOthers(fs, roots[1]) :
               n \notin EntryNames(result.frameworks)

\* ------------------------------------------------------------ main (pb-scan)
\* Path::is_dir: the roots are directories; any other path is a file or nothing.
is_dir(p) == p \in ROOT_NAMES

\* The paths a command line can name: the directories and one that is none.
CLI_PATHS == ROOT_NAMES \cup {"notadir"}

\* The scan main selects with the roots it validates and both lists appended.
SelectedWithPositional(c) ==
    IF c.paths_given
    THEN [mode |-> "multi", roots |-> Append(c.paths, c.path)]
    ELSE [mode |-> "single", roots |-> <<c.path>>]

\* if let Some(ref dirs) = cli.paths { scan_directories(&paths) } else
\* { scan_directory(&cli.path) }: the function main calls and the roots it
\* validates and hands over.
Selected(c) ==
    IF c.paths_given
    THEN [mode |-> "multi", roots |-> c.paths]
    ELSE [mode |-> "single", roots |-> <<c.path>>]

\* The validation that looks at the first path only.
NotDirectoriesFirstOnly(ps) ==
    IF ps # <<>> /\ ~is_dir(ps[1]) THEN <<ps[1]>> ELSE <<>>

\* for p in &paths { if !p.is_dir() { ... } }: the paths the test fails for.
NotDirectories(ps) == SelectSeq(ps, LAMBDA p : ~is_dir(p))

\* The parsed command lines: the positional path always has a value (clap's
\* default is "."), --paths has at least one value when it is given.
CliArgs ==
    {[invoked |-> TRUE, path |-> p, paths_given |-> ps # <<>>, paths |-> ps,
      pretty |-> pretty, stats |-> stats] :
        p \in CLI_PATHS, ps \in SeqsUpTo(CLI_PATHS, MaxRoots),
        pretty \in BOOLEAN, stats \in BOOLEAN}

\* The leaves the trees of the command-line runs are built from.
CliCandidates(r) ==
    { File(r, <<>>, "main.py", 1, FALSE, NoContent),
      File(r, <<>>, "Dockerfile", 1, FALSE, NoContent) }

CliFileSystems ==
    {t \in SubsetsUpTo(UNION {CliCandidates(r) : r \in ROOT_NAMES}, MaxFiles) : WellFormed(t)}

InitCli ==
    /\ fs \in CliFileSystems
    /\ cli \in CliArgs
    /\ mode = "main"
    /\ roots = <<>>
    /\ pc = "main"
    /\ run = 1
    /\ changes = 0
    /\ first = EmptyResult
    /\ FreshLocals
    /\ stdout = <<>>
    /\ stderr = <<>>
    /\ exit_code = <<>>

\* main, up to the call of the scan: the paths are validated; the first that is
\* no directory ends the process with an error message and exit code 1.
MainValidate ==
    /\ pc = "main"
    /\ LET sel == Selected(cli)
           bad == NotDirectories(sel.roots)
       IN  IF bad # <<>>
           THEN /\ stderr' = Append(stderr, [error |-> "not a directory", path |-> Head(bad)])
                /\ exit_code' = <<1>>
                /\ pc' = "exit"
                /\ UNCHANGED << mode, roots >>
           ELSE /\ mode' = sel.mode
                /\ roots' = sel.roots
                /\ pc' = "start"
                /\ UNCHANGED << stderr, exit_code >>
    /\ UNCHANGED << fs, run, first, changes, cli, stdout, i, sd_locals, sd_result, m_locals,
                    result, walks, seen >>

\* main, after the scan has returned: the report goes to standard output, the
\* statistics to standard error when --stats is set, and main returns.
MainPrint ==
    /\ pc = "done"
    /\ cli.invoked
    /\ stdout' = Append(stdout, [json |-> result, pretty |-> cli.pretty])
    /\ stderr' = IF cli.stats
                 THEN Append(stderr, [stats |-> << Len(result.languages), Len(result.frameworks),
                                                  Len(result.infrastructure_signals) >>])
                 ELSE stderr
    /\ exit_code' = <<0>>
    /\ pc' = "exit"
    /\ UNCHANGED << fs, mode, roots, run, first, changes, cli, i, sd_locals, sd_result, m_locals,
                    result, walks, seen >>

NextCli ==
    \/ MainValidate
    \/ Start
    \/ Walk
    \/ CheckHidden
    \/ DetectFileIndicators
    \/ DetectStructures
    \/ DetectAll
    \/ Return
    \/ Merge
    \/ CombinedLanguageWalk
    \/ BuildResult
    \/ MainPrint

SpecCli == InitCli /\ [][NextCli]_vars

\* The paths the command line supplies for scanning.
SuppliedPaths(c) == IF c.paths_given THEN c.paths ELSE <<c.path>>

AllDirectories(ps) == \A k \in 1..Len(ps) : ps[k] \in ROOT_NAMES

\* What main writes to standard error on success.
StatsOnly(c, err) == IF c.stats THEN Len(err) = 1 /\ DOMAIN err[1] = {"stats"} ELSE err = <<>>

\* C17: when the positional path (without --paths) or an element of --paths is no
\* directory, no walker is ever built and nothing is written to standard output,
\* and the process ends with one error message on standard error and exit code
\* 1; otherwise it ends with the report of the scan on standard output, no error
\* message, and exit code 0.  The process has no exit code before it ends.
C17_ValidatesBeforeScanning ==
    /\ ~AllDirectories(SuppliedPaths(cli))
           => /\ walks = <<>>
              /\ stdout = <<>>
              /\ result = EmptyResult
    /\ pc = "exit"
           => IF ~AllDirectories(SuppliedPaths(cli))
              THEN /\ exit_code = <<1>>
                   /\ Len(stderr) = 1
                   /\ stderr[1].error = "not a directory"
                   /\ ~is_dir(stderr[1].path)
              ELSE /\ exit_code = <<0>>
                   /\ stdout = <<[json |-> result, pretty |-> cli.pretty]>>
                   /\ walks # <<>>
                   /\ StatsOnly(cli, stderr)
    /\ pc # "exit" => exit_code = <<>>

\* C17, witness: --paths names a directory and then a path that is none; the
\* process has ended with exit code 1, nothing scanned and nothing reported.
C17_Witness ==
    /\ pc = "exit"
    /\ cli.paths_given
    /\ Len(cli.paths) = 2
    /\ is_dir(cli.paths[1])
    /\ ~is_dir(cli.paths[2])
    /\ Leaves(fs, cli.paths[1]) # {}
    /\ exit_code = <<1>>
    /\ stdout = <<>>
    /\ walks = <<>>

\* C18: when --paths is given, whatever the positional path is, main calls
\* scan_directories on the --paths list: walkers are built for its directories
\* only, and a process that ends with exit code 0 has walked each of them in
\* both loops of scan_directories and reports the merged signals of exactly
\* these roots; the positional path, directory or not, does not change the exit
\* code.
C18_PathsTakePrecedence ==
    cli.paths_given
        => /\ Range(walks) \subseteq Range(cli.paths)
           /\ pc \notin {"main", "exit"} => mode = "multi" /\ roots = cli.paths
           /\ pc = "exit"
                  => IF AllDirectories(cli.paths)
                     THEN /\ exit_code = <<0>>
                          /\ walks = cli.paths \o cli.paths
                          /\ stdout = <<[json |-> result, pretty |-> cli.pretty]>>
                          /\ UnionLastRootWins(
                                 result.frameworks,
                                 [k \in 1..Len(cli.paths) |-> RootFrameworks(fs, cli.paths[k])])
                          /\ UnionLastRootWins(
                                 result.infrastructure_signals,
                                 [k \in 1..Len(cli.paths) |-> RootInfra(fs, cli.paths[k])])
                     ELSE exit_code = <<1>>

\* C18, witness: --paths names one directory, which holds a Dockerfile, and the
\* positional path is no directory; the process has ended with exit code 0 and
\* the report of that directory.
C18_Witness ==
    /\ pc = "exit"
    /\ cli.paths_given
    /\ ~is_dir(cli.path)
    /\ Len(cli.paths) = 1
    /\ exit_code = <<0>>
    /\ Len(stdout) = 1
    /\ stdout[1].json.infrastructure_signals
           = <<[name |-> "Docker", category |-> "infrastructure"]>>

\* The paths of more than one component among the hidden indicators.
HiddenIndicatorPaths ==
    {HIDDEN_INDICATORS[k][2] : k \in {j \in 1..Len(HIDDEN_INDICATORS) :
                                          Len(HIDDEN_INDICATORS[j][2]) > 1}}

\* The tree cut below the first level: a leaf further down is replaced by the
\* empty directory that is its first component, unless it lies on or below the
\* path of a hidden indicator.
FirstLevel(tree) ==
    {IF \/ Len(RelPath(e)) = 1
        \/ \E h \in HiddenIndicatorPaths :
               Len(RelPath(e)) >= Len(h) /\ SubSeq(RelPath(e), 1, Len(h)) = h
     THEN e
     ELSE Dir(e.root, <<>>, e.parents[1]) : e \in tree}

\* C19: what scan_directory reports in frameworks, infrastructure_signals and
\* project_structures is what it reports for the tree cut below the first
\* level, in which only the paths of the hidden indicators reach further down:
\* nothing below the first level yields a signal or a tag.
C19_OnlyDirectChildrenAreConsulted ==
    (mode = "single" /\ pc = "done")
        => /\ result.frameworks
                  = into_sorted_entries(RootFrameworks(FirstLevel(fs), roots[1]))
           /\ result.infrastructure_signals
                  = into_sorted_entries(RootInfra(FirstLevel(fs), roots[1]))
           /\ result.project_structures
                  = detect_structures(TopLevelNames(FirstLevel(fs), roots[1]))
           /\ \A e \in Leaves(fs, roots[1]) :
                  (Len(RelPath(e)) > 1 /\ Leaves(fs, roots[1]) = {e}
                       /\ RelPath(e) \notin HiddenIndicatorPaths)
                      => /\ result.frameworks = <<>>
                         /\ result.infrastructure_signals = <<>>
                         /\ result.project_structures = <<>>

\* C19, witness: the root holds sub/Dockerfile and nothing else; the scan is
\* done and reports no signal and no tag.
C19_Witness ==
    /\ mode = "single"
    /\ pc = "done"
    /\ \E e \in fs : /\ Leaves(fs, roots[1]) = {e}
                     /\ RelPath(e) = <<"sub", "Dockerfile">>
    /\ result = EmptyResult

\* The names of a list of SignalEntry, in the order of the list.
NamesOf(entries) == [k \in 1..Len(entries) |-> entries[k].name]

\* C20: in every ScanResult scan_directory or scan_directories returns, the
\* names of frameworks, and those of infrastructure_signals, are strictly
\* ascending in the order of String, so no name is listed twice.
C20_SignalsUniqueAndAscending ==
    pc = "done"
        => /\ StrictlyAscending(NamesOf(result.frameworks), SIGNAL_NAME_ORDER)
           /\ StrictlyAscending(NamesOf(result.infrastructure_signals), SIGNAL_NAME_ORDER)

\* C20, witness: a merged scan of two roots, both of which hold Cargo.toml
\* naming tokio, reports Rust and then Tokio, each once.
C20_Witness ==
    /\ mode = "multi"
    /\ pc = "done"
    /\ Len(roots) = 2
    /\ roots[1] # roots[2]
    /\ DOMAIN RootFrameworks(fs, roots[1]) = {"Rust", "Tokio"}
    /\ DOMAIN RootFrameworks(fs, roots[2]) = {"Rust", "Tokio"}
    /\ result.frameworks = << [name |-> "Rust", category |-> "language"],
                              [name |-> "Tokio", category |-> "tool"] >>

\* The tree without the leaves that lie under a directory named in SKIP_DIRS.
WithoutSkipDirs(tree) ==
    {e \in tree : \A k \in 1..Len(e.parents) : e.parents[k] \notin SKIP_DIRS}

\* C21: no file under a directory named in SKIP_DIRS adds to a language byte
\* count, in scan_directory or in scan_directories, whether or not an ignore
\* rule covers the directory: the counts are those of the tree without such files.
C21_SkipDirsNeverCounted ==
    /\ pc \in {"hidden", "indicators", "structures", "deps", "return"}
           => bytes_by_lang = ScanDirectoryWalk(WithoutSkipDirs(fs), roots[i]).bytes_by_lang
    /\ pc = "build"
           => m_bytes_by_lang = CombinedBytes(WithoutSkipDirs(fs), Len(roots))

\* ------------------------------- a multi-root scan of a tree that is changing
\* How often the tree changes during one call, at most.
MaxChanges == 1

\* The leaves the changing trees are built from.
ChangeCandidates(r) ==
    { File(r, <<>>, "main.py", 1, FALSE, NoContent),
      File(r, <<>>, "app.js", 1, FALSE, NoContent),
      File(r, <<>>, "Dockerfile", 1, FALSE, NoContent) }

ChangeFileSystems ==
    {t \in SubsetsUpTo(UNION {ChangeCandidates(r) : r \in ROOT_NAMES}, MaxFiles) :
        WellFormed(t)}

InitChange ==
    /\ fs \in ChangeFileSystems
    /\ mode = "multi"
    /\ roots \in SeqsUpTo(ROOT_NAMES, MaxRoots)
    /\ pc = "start"
    /\ run = 1
    /\ changes = 0
    /\ first = EmptyResult
    /\ FreshLocals
    /\ NotFromCli

\* Another process changes the tree while scan_directories runs: the scanner
\* takes no lock and the file system gives no snapshot.
ChangeTree ==
    /\ pc \notin {"start", "done"}
    /\ changes < MaxChanges
    /\ changes' = changes + 1
    /\ fs' \in ChangeFileSystems \ {fs}
    /\ UNCHANGED << mode, roots, pc, run, first, i, sd_locals, sd_result, m_locals, result,
                    walks, seen, cli, stdout, stderr, exit_code >>

NextChange ==
    \/ Start
    \/ Walk
    \/ CheckHidden
    \/ DetectFileIndicators
    \/ DetectStructures
    \/ DetectAll
    \/ Return
    \/ Merge
    \/ CombinedLanguageWalk
    \/ BuildResult
    \/ ChangeTree

SpecChange == InitChange /\ [][NextChange]_vars

\* The byte counts of roots[1..k], each root in the state in which the walk of
\* scan_directory, which gives its signals and tags, found it.
RECURSIVE SignalSnapshotBytes(_)
SignalSnapshotBytes(k) ==
    IF k = 0 THEN EmptyMap
    ELSE CombinedWalk(seen[k], roots[k], SignalSnapshotBytes(k - 1))

\* The languages scan_directories reports are those of the roots in the state in
\* which the walk that gave each root's signals and tags found it.
LanguagesFromSignalSnapshot ==
    (mode = "multi" /\ pc = "done")
        => result.languages \in
               {build_language_list(SignalSnapshotBytes(Len(roots)), iter) :
                    iter \in Orders(DOMAIN SignalSnapshotBytes(Len(roots)))}

\* C22: in a multi-root scan every root is traversed once, and the languages
\* reported derive from the traversal that gave the root's signals and tags, also
\* when the tree changes while the scan runs.
C22_OneSnapshotPerRoot ==
    /\ (mode = "multi" /\ pc = "done") => walks = roots
    /\ LanguagesFromSignalSnapshot

\* ------------------------------------------------- one category per name
\* The (key, name, category) entries of FRAMEWORK_INDICATORS and of the seven
\* tables of the dependency parsers.
ALL_TABLES ==
    << FRAMEWORK_INDICATORS, NPM_MAP, PYTHON_MAP, RUST_MAP, RUBY_MAP, GO_MAP, PHP_MAP,
       PYPROJECT_MAP >>

TableEntries == UNION {Range(ALL_TABLES[k]) : k \in 1..Len(ALL_TABLES)}

DISPLAY_NAMES == {t[2] : t \in TableEntries}

CategoriesOf(name) == {t[3] : t \in {u \in TableEntries : u[2] = name}}

NamesOfSeveralCategories == {n \in DISPLAY_NAMES : Cardinality(CategoriesOf(n)) # 1}

\* Every entry of a reported list has the one category the tables give its name.
HasTableCategories(entries) ==
    \A k \in 1..Len(entries) : CategoriesOf(entries[k].name) = {entries[k].category}

\* C23: the tables of the file indicators and of the seven dependency parsers
\* pair every display name with exactly one category (so none is infrastructure
\* in one place and something else in another); every name a scan reports has
\* that category, whichever detector or root wrote it last, and frameworks and
\* infrastructure_signals have no name in common.
C23_OneCategoryPerName ==
    /\ NamesOfSeveralCategories = {}
    /\ pc = "done"
           => /\ HasTableCategories(result.frameworks)
              /\ HasTableCategories(result.infrastructure_signals)
              /\ EntryNames(result.frameworks)
                     \cap EntryNames(result.infrastructure_signals) = {}

\* C23, witness: of two different roots the first has webpack.config.js and the
\* second a package.json listing webpack, so a file indicator and a parser of
\* different roots both write Webpack; it is reported as a tool.
C23_Witness ==
    /\ mode = "multi"
    /\ pc = "done"
    /\ Len(roots) = 2
    /\ roots[1] # roots[2]
    /\ "Webpack" \in DOMAIN IndicatorWrites(fs, roots[1])
    /\ "Webpack" \in DOMAIN ParserWrites(fs, roots[2])
    /\ CategoryIn(result.frameworks, "Webpack") = {"tool"}
    /\ result.infrastructure_signals = <<>>

\* ------------------------------------------- one-element and empty root lists
\* The results scan_directory(r) can return on the given tree: one for every
\* order in which the HashMap of its byte counts can be iterated.
ScanDirectoryOutcomes(tree, r) ==
    {ScanResult(build_language_list(ScanDirectoryWalk(tree, r).bytes_by_lang, iter),
                into_sorted_entries(RootFrameworks(tree, r)),
                detect_structures(TopLevelNames(tree, r)),
                into_sorted_entries(RootInfra(tree, r))) :
        iter \in Orders(DOMAIN ScanDirectoryWalk(tree, r).bytes_by_lang)}

\* What a call of scan_directory returns is one of these results.
ScanDirectoryReturnsAnOutcome ==
    (mode = "single" /\ pc = "done") => result \in ScanDirectoryOutcomes(fs, roots[1])

\* scan_directories([r]) returns a result scan_directory(r) can return.
SingletonListReturnsAnOutcome ==
    (mode = "multi" /\ pc = "done" /\ Len(roots) = 1)
        => result \in ScanDirectoryOutcomes(fs, roots[1])

\* scan_directories on the empty list returns four empty fields.
EmptyListGivesEmptyResult ==
    (mode = "multi" /\ pc = "done" /\ roots = <<>>) => result = EmptyResult

\* C24: on an unmodified tree scan_directories on the one-element list [r]
\* returns the four fields scan_directory(r) returns, whatever execution of
\* scan_directory(r) it is compared with, and scan_directories on the empty list
\* returns four empty fields.
C24_SingletonListEqualsSingleScan ==
    /\ (mode = "multi" /\ pc = "done" /\ Len(roots) = 1)
           => \A s \in ScanDirectoryOutcomes(fs, roots[1]) : result = s
    /\ EmptyListGivesEmptyResult

\* --------------------------------------------- manifests under an ignore rule
\* The first level of a root: manifests and a configuration file that an ignore
\* rule may cover, and two entries that none covers.
IgnoreCandidates(r) ==
    UNION {{ File(r, <<>>, "pyproject.toml", 1, g, Text({"Django>=4.2"})),
             File(r, <<>>, "requirements.txt", 1, g, Text({"flask==2.3.0"})),
             File(r, <<>>, "package.json", 1, g, Json({"webpack"}, {})),
             File(r, <<>>, "Cargo.toml", 1, g, Text({"tokio"})),
             File(r, <<>>, "webpack.config.js", 1, g, NoContent) } : g \in BOOLEAN}
    \cup { File(r, <<>>, "Makefile", 1, FALSE, NoContent),
           Dir(r, <<>>, "src") }

IgnoreFileSystems ==
    {t \in SubsetsUpTo(UNION {IgnoreCandidates(r) : r \in ROOT_NAMES}, MaxFiles) :
        WellFormed(t)}

InitIgnore ==
    /\ fs \in IgnoreFileSystems
    /\ mode \in {"single", "multi"}
    /\ roots \in IF mode = "single" THEN {<<r>> : r \in ROOT_NAMES}
                 ELSE SeqsUpTo(ROOT_NAMES, MaxRoots)
    /\ pc = "start"
    /\ run = 1
    /\ changes = 0
    /\ first = EmptyResult
    /\ FreshLocals
    /\ NotFromCli

SpecIgnore == InitIgnore /\ [][Next]_vars

\* The tree without the entries an ignore rule covers, and the manifests at the
\* first level of root r that one covers.
WithoutIgnored(tree) == {e \in tree : ~e.ignored}

\* The tree with the same entries and no ignore rule.
Unignored(tree) == {[e EXCEPT !.ignored = FALSE] : e \in tree}

IgnoredManifests(tree, r) ==
    {e.name : e \in {x \in Leaves(tree, r) :
                        x.ignored /\ ~x.isdir /\ x.parents = <<>> /\ x.name \in MANIFESTS}}

\* The display names and the tags a first-level name gives when it is the only one.
IndicatorNamesOf(name) ==
    DOMAIN detect_file_indicators(<<name>>, EmptyMap, EmptyMap).frameworks
        \cup DOMAIN detect_file_indicators(<<name>>, EmptyMap, EmptyMap).infra

TagsOf(name) == Range(detect_structures(<<name>>))

\* C25: the parsers read the manifests at the root whether or not the walker
\* yields them: a finished scan reports in frameworks what the parsers would
\* find if no ignore rule existed and what the file indicators give on the tree
\* without its ignored entries; infrastructure_signals and project_structures are
\* those of the tree without its ignored entries. The name of a manifest that an
\* ignore rule covers is not among the top-level names, and in a single-root scan
\* the file-indicator signal and the tag of that file name are not reported.
C25_IgnoredManifestStillParsed ==
    /\ pc = "done"
           => /\ EntryNames(result.frameworks)
                     = UNION {DOMAIN IndicatorWrites(WithoutIgnored(fs), r)
                                  \cup DOMAIN ParserWrites(Unignored(fs), r) : r \in Range(roots)}
              /\ EntryNames(result.infrastructure_signals)
                     = UNION {DOMAIN RootInfra(WithoutIgnored(fs), r) : r \in Range(roots)}
              /\ Range(result.project_structures)
                     = UNION {RootStructures(WithoutIgnored(fs), r) : r \in Range(roots)}
    /\ pc \in {"hidden", "indicators", "structures", "deps"}
           => Range(top_level_names) \cap IgnoredManifests(fs, roots[i]) = {}
    /\ (mode = "single" /\ pc = "done")
           => \A name \in IgnoredManifests(fs, roots[1]) :
                  /\ IndicatorNamesOf(name) \cap EntryNames(result.frameworks) = {}
                  /\ TagsOf(name) \cap Range(result.project_structures) = {}

\* C25, witness: an ignore rule covers the pyproject.toml of the only root, which
\* names Django; the scan reports Django, and neither the Python Package signal
\* nor the python_package tag of the file name.
C25_Witness ==
    /\ mode = "single"
    /\ pc = "done"
    /\ IgnoredManifests(fs, roots[1]) = {"pyproject.toml"}
    /\ IndicatorNamesOf("pyproject.toml") = {"Python Package"}
    /\ TagsOf("pyproject.toml") = {"python_package"}
    /\ result.frameworks = <<[name |-> "Django", category |-> "framework"]>>
    /\ result.project_structures = <<>>

====
